---- MODULE Spec2Model ----
(***************************************************************************)
(* A model of the StreamFramework composition runtime: the IO monad        *)
(* (core/io_monad.py), the Either monad (core/either.py) and the Stream    *)
(* monad (core/stream.py), with the `>>` operator of core/monad.py, and    *)
(* the parallel execution of HTTP requests (core/http_stream.py).          *)
(*                                                                         *)
(* Python values are records tagged by `ty`; an IO value is the record of  *)
(* the closure it wraps (`op` names which closure of io_monad.py it is).   *)
(* Running a closure is a function from the world (the invocation count of *)
(* every user closure and user function, and the log of their calls in     *)
(* order) to an outcome (a returned value or a raised error) and the new   *)
(* world.                                                                  *)
(***************************************************************************)
EXTENDS Integers, Sequences, FiniteSets, TLC

VARIABLES
    io,      \* the IO value the program holds (NoIO before the first one)
    calls,   \* invocation count of every user closure and user function
    nruns,   \* number of run() calls made so far
    last,    \* the most recent operation: its name and, for run(), what was
             \* run, the counts before it, the calls it made and its outcome
    law,     \* SpecLaws: the two sides of the monad law evaluated last
    chain,   \* SpecEither: the Either chain built so far and its last step
    stream,  \* SpecStream: the Stream the program holds and its last traversal
    pool,    \* SpecParallel: the thread pool of one execute_parallel run
    http,    \* SpecHttp: the HttpStreams the program holds and what it did last
    heap     \* the HttpRequest objects made so far, each at its address

vars == <<io, calls, nruns, last, law, chain, stream, pool, http, heap>>

----------------------------------------------------------------------------
(* Bounds of the model.                                                    *)

\* Most constructor applications (IO(..), IO.pure, map, bind, ...) in the
\* IO value the program builds.
MaxSize == 3
\* Most run() calls in one behaviour.
MaxRuns == 2
\* Largest max_attempts handed to retry.
MaxAttempts == 3
\* Number of elements of an unbounded itertools.count the model follows.
MaxCount == 5
\* Most requests in an HttpStream.
MaxRequests == 3
\* Largest max_workers handed to execute_parallel.
MaxWorkers == 2

----------------------------------------------------------------------------
(* Python values.                                                          *)

IntV(n) == [ty |-> "int", n |-> n]
StrV(s) == [ty |-> "str", s |-> s]
ListV(xs) == [ty |-> "list", xs |-> xs]
\* An exception object: its class, who raised it and at which invocation.
ExcV(kind, by, at) == [ty |-> "exc", kind |-> kind, by |-> by, at |-> at]
NoneV == [ty |-> "none"]
BoolV(b) == [ty |-> "bool", b |-> b]
TupleV(xs) == [ty |-> "tuple", xs |-> xs]

\* `except Exception` catches every class but the BaseException-only ones.
IsException(e) == e.ty = "exc" /\ e.kind \notin {"KeyboardInterrupt"}

Return(v) == [tag |-> "return", v |-> v]
Raise(e) == [tag |-> "raise", e |-> e]

\* Either(value, is_right)
Either(value, is_right) == [ty |-> "either", is_right |-> is_right, value |-> value]
Either_right(value) == Either(value, TRUE)
Either_left(error) == Either(error, FALSE)
Either_pure(value) == Either(value, TRUE)

----------------------------------------------------------------------------
(* IO values: the closure each constructor of io_monad.py wraps.           *)

NoIO == [ty |-> "none"]
IO(c) == [ty |-> "io", op |-> "effect", c |-> c]
IO_pure(value) == [ty |-> "io", op |-> "pure", v |-> value]
IO_map(self, f) == [ty |-> "io", op |-> "map", io |-> self, f |-> f]
IO_bind(self, f) == [ty |-> "io", op |-> "bind", io |-> self, f |-> f]
IO_attempt(self) == [ty |-> "io", op |-> "attempt", io |-> self]
IO_recover(self, handler) == [ty |-> "io", op |-> "recover", io |-> self, f |-> handler]
IO_retry(self, max_attempts) == [ty |-> "io", op |-> "retry", io |-> self, n |-> max_attempts]
IO_sequence(io_list) == [ty |-> "io", op |-> "sequence", ios |-> io_list]

IsIO(v) == v.ty = "io"

\* User functions are records too: a named function, or one of the lambdas
\* the code and the laws build.
Fn(name) == [fn |-> name]
ConstFn(other) == [fn |-> "const", io |-> other]          \* lambda _: other
KleisliFn(f, g) == [fn |-> "kleisli", f |-> f, g |-> g]   \* lambda x: f(x).bind(g)
PureFn == [fn |-> "IO.pure"]                              \* IO.pure, as a function

\* Monad.__rshift__
IO_rshift(self, other) == IO_bind(self, ConstFn(other))

----------------------------------------------------------------------------
(* Stream values: the source each constructor of stream.py wraps.          *)

Stream_of(values) == [ty |-> "stream", op |-> "of", xs |-> values]
Stream_pure(value) == [ty |-> "stream", op |-> "of", xs |-> <<value>>]
\* Stream.from_iterable(iterable), for a list: each source iterates it anew
Stream_from_iterable(iterable) == [ty |-> "stream", op |-> "of", xs |-> iterable]
Stream_bind(self, f) == [ty |-> "stream", op |-> "bind", s |-> self, f |-> f]
\* Stream.range(start), with no stop
Stream_range(start) == [ty |-> "stream", op |-> "range", start |-> start]
Stream_map(self, f) == [ty |-> "stream", op |-> "map", s |-> self, f |-> f]
Stream_filter(self, predicate) == [ty |-> "stream", op |-> "filter", s |-> self, f |-> predicate]
Stream_take(self, n) == [ty |-> "stream", op |-> "take", s |-> self, n |-> n]
Stream_skip(self, n) == [ty |-> "stream", op |-> "skip", s |-> self, n |-> n]
Stream_distinct(self) == [ty |-> "stream", op |-> "distinct", s |-> self]
Stream_chunk(self, size) == [ty |-> "stream", op |-> "chunk", s |-> self, n |-> size]
Stream_zip(self, other) == [ty |-> "stream", op |-> "zip", s |-> self, other |-> other]
Stream_concat(self, other) == [ty |-> "stream", op |-> "concat", s |-> self, other |-> other]

IsStream(v) == v.ty = "stream"
IsEither(v) == v.ty = "either"

EitherPureFn == [fn |-> "Either.pure"]                    \* Either.pure, as a function
StreamPureFn == [fn |-> "Stream.pure"]                    \* Stream.pure, as a function
\* lambda x: f(x).bind(g), for f and g returning Either values and Streams
KleisliEither(f, g) == [fn |-> "kleisli_either", f |-> f, g |-> g]
KleisliStream(f, g) == [fn |-> "kleisli_stream", f |-> f, g |-> g]

----------------------------------------------------------------------------
(* The user closures and user functions the program is run with.           *)

Closures == {"counter", "flaky", "failing", "io_input"}
NamedFns == {"add3", "failing_bind", "pure_add3", "h_default",
             "right_add3", "left_error", "of_x_x3", "of_x1", "of_nothing",
             "input", "is_even", "gt3", "add", "effect_fn"}
\* The URLs the program requests: the network counts the requests to each.
Urls == {"/users", "/missing", "/down"}
Counted == Closures \cup NamedFns \cup Urls

\* What closure c does at its (n+1)-th invocation.
Closure(c, n) ==
    CASE c = "counter" -> Return(IntV(n + 1))
      [] c = "flaky" ->
            IF n = 0 THEN Raise(ExcV("ValueError", c, n))
            ELSE IF n = 1 THEN Raise(ExcV("TypeError", c, n))
            ELSE Return(IntV(42))
      [] c = "failing" -> Raise(ExcV("ValueError", c, n))
      [] c = "io_input" ->
            IF n % 2 = 0 THEN Return(StrV("line"))
            ELSE Raise(ExcV("KeyboardInterrupt", c, n))

\* What named function f does with argument x at its (n+1)-th invocation.
Apply(f, x, n) ==
    CASE f = "add3" ->
            IF x.ty = "int" THEN Return(IntV(x.n + 3))
            ELSE Raise(ExcV("TypeError", f, n))
      [] f = "failing_bind" -> Raise(ExcV("ValueError", f, n))
      [] f = "pure_add3" ->
            IF x.ty = "int" THEN Return(IO_pure(IntV(x.n + 3)))
            ELSE Raise(ExcV("TypeError", f, n))
      [] f = "h_default" -> Return(IntV(0))
      [] f = "right_add3" ->
            IF x.ty = "int" THEN Return(Either_right(IntV(x.n + 3)))
            ELSE Raise(ExcV("TypeError", f, n))
      [] f = "left_error" -> Return(Either_left(StrV("error")))
      [] f = "of_x_x3" ->
            IF x.ty = "int" THEN Return(Stream_of(<<x, IntV(x.n + 3)>>))
            ELSE Raise(ExcV("TypeError", f, n))
      [] f = "of_x1" ->
            IF x.ty = "int" THEN Return(Stream_of(<<IntV(x.n + 1)>>))
            ELSE Raise(ExcV("TypeError", f, n))
      [] f = "of_nothing" -> Return(Stream_of(<<>>))
      [] f = "is_even" ->
            IF x.ty = "int" THEN Return(BoolV(x.n % 2 = 0))
            ELSE Raise(ExcV("TypeError", f, n))
      [] f = "gt3" ->
            IF x.ty = "int" THEN Return(BoolV(x.n > 3))
            ELSE Raise(ExcV("TypeError", f, n))
      [] f = "add" ->
            IF x.xs[1].ty = "int" /\ x.xs[2].ty = "int" THEN Return(IntV(x.xs[1].n + x.xs[2].n))
            ELSE Raise(ExcV("TypeError", f, n))
      [] f = "effect_fn" ->
            \* lambda x: IO(effect), whose effect counts and returns x * 2
            IF x.ty = "int" THEN Return(IO_rshift(IO("counter"), IO_pure(IntV(x.n * 2))))
            ELSE Raise(ExcV("TypeError", f, n))
      [] f = "input" ->
            IF n % 2 = 0 THEN Return(StrV("line"))
            ELSE Raise(ExcV("KeyboardInterrupt", f, n))

----------------------------------------------------------------------------
(* The world, and calls that change it.                                    *)

\* The world a closure runs in: the counts and the log, and the objects that
\* can be assigned to.
World(c, l) == [calls |-> c, log |-> l, heap |-> <<>>]
Res(out, w) == [out |-> out, w |-> w]

Invoked(w, name, out) ==
    [w EXCEPT !.calls[name] = @ + 1, !.log = Append(@, <<name, out.tag>>)]

CallClosure(c, w) ==
    LET out == Closure(c, w.calls[c]) IN Res(out, Invoked(w, c, out))

\* A reference to the object at an address of the heap, and the object.
Ref(at) == [ty |-> "ref", at |-> at]
Object(ref, w) == w.heap[ref.at]

\* A dict with string keys, and a.update(b) on a copy of a.
DictV(kv) == [ty |-> "dict", kv |-> kv]
Updated(a, b) ==
    DictV([k \in DOMAIN a.kv \cup DOMAIN b.kv |-> IF k \in DOMAIN b.kv THEN b.kv[k] ELSE a.kv[k]])

\* HttpRequest(url=url): a dataclass that is not frozen
HttpRequest(url) == [ty |-> "request", url |-> url, method |-> "GET", headers |-> NoneV]

\* The functions HttpStream hands to map_request, and one of a user that
\* makes a new request for another URL.
AddRetry == [fn |-> "add_retry"]
AddHeaders(headers) == [fn |-> "add_headers", headers |-> headers]
Redirect(url) == [fn |-> "redirect", url |-> url]

\* HttpStream.with_headers.add_headers
add_headers(headers, request, w) ==
    LET old == Object(request, w).headers
        \* new_headers = (request.headers or {}).copy(); new_headers.update(headers)
        new_headers == Updated(IF old = NoneV THEN DictV(<<>>) ELSE old, headers)
    IN  \* request.headers = new_headers; return request
        Res(Return(request), [w EXCEPT !.heap[request.at].headers = new_headers])

RECURSIVE CallFn(_, _, _)

\* An Either.bind that wraps what f returns, as map does.
Either_bind_wrapping(self, f, w) ==
    IF self.is_right
    THEN LET r == CallFn(f, self.value, w) IN
         IF r.out.tag = "raise" THEN r ELSE Res(Return(Either(r.out.v, TRUE)), r.w)
    ELSE Res(Return(Either(self.value, FALSE)), w)

\* An Either.bind that turns an exception of f into a Left, as map does.
Either_bind_catching(self, f, w) ==
    IF self.is_right
    THEN LET r == CallFn(f, self.value, w) IN
         IF r.out.tag = "raise" /\ IsException(r.out.e)
         THEN Res(Return(Either(r.out.e, FALSE)), r.w)
         ELSE r
    ELSE Res(Return(Either(self.value, FALSE)), w)

\* Either.bind
Either_bind(self, f, w) ==
    IF self.is_right THEN CallFn(f, self.value, w)
    ELSE Res(Return(Either(self.value, FALSE)), w)

CallFn(f, x, w) ==
    CASE f.fn = "const" -> Res(Return(f.io), w)
      [] f.fn = "add_retry" -> Res(Return(x), w)
      [] f.fn = "add_headers" -> add_headers(f.headers, x, w)
      [] f.fn = "redirect" ->
            Res(Return(Ref(Len(w.heap) + 1)), [w EXCEPT !.heap = Append(@, HttpRequest(f.url))])
      [] f.fn = "IO.pure" -> Res(Return(IO_pure(x)), w)
      [] f.fn = "Either.pure" -> Res(Return(Either_pure(x)), w)
      [] f.fn = "Stream.pure" -> Res(Return(Stream_pure(x)), w)
      [] f.fn = "kleisli_either" ->
            LET r == CallFn(f.f, x, w) IN
            IF r.out.tag = "raise" THEN r
            ELSE IF IsEither(r.out.v) THEN Either_bind(r.out.v, f.g, r.w)
            ELSE Res(Raise(ExcV("AttributeError", "bind", 0)), r.w)
      [] f.fn = "kleisli_stream" ->
            LET r == CallFn(f.f, x, w) IN
            IF r.out.tag = "raise" THEN r
            ELSE IF IsStream(r.out.v) THEN Res(Return(Stream_bind(r.out.v, f.g)), r.w)
            ELSE Res(Raise(ExcV("AttributeError", "bind", 0)), r.w)
      [] f.fn = "kleisli" ->
            LET r == CallFn(f.f, x, w) IN
            IF r.out.tag = "raise" THEN r
            ELSE IF IsIO(r.out.v) THEN Res(Return(IO_bind(r.out.v, f.g)), r.w)
            ELSE Res(Raise(ExcV("AttributeError", "bind", 0)), r.w)
      [] OTHER ->
            LET out == Apply(f.fn, x, w.calls[f.fn]) IN Res(out, Invoked(w, f.fn, out))

\* An Either.map without its try/except: an exception of f reaches the caller.
Either_map_raising(self, f, w) ==
    IF self.is_right
    THEN LET r == CallFn(f, self.value, w) IN
         IF r.out.tag = "raise" THEN r
         ELSE Res(Return(Either(r.out.v, TRUE)), r.w)
    ELSE Res(Return(Either(self.value, FALSE)), w)

\* Either.map
Either_map(self, f, w) ==
    IF self.is_right
    THEN \* try: return Either(f(self._value), True)
         LET r == CallFn(f, self.value, w) IN
         IF r.out.tag = "return" THEN Res(Return(Either(r.out.v, TRUE)), r.w)
         \* except Exception as e: return Either(e, False)
         ELSE IF IsException(r.out.e) THEN Res(Return(Either(r.out.e, FALSE)), r.w)
         ELSE r
    ELSE Res(Return(Either(self.value, FALSE)), w)

----------------------------------------------------------------------------
(* What each closure of io_monad.py does when it is invoked.               *)

RECURSIVE IO_run(_, _)
RECURSIVE Invoke(_, _)       \* self._effect()

\* IO.map.new_effect
map_new_effect(self, f, w) ==
    LET result == Invoke(self, w) IN
    IF result.out.tag = "raise" THEN result
    ELSE CallFn(f, result.out.v, result.w)

\* A bind that obtains and runs the next effect before its own closure.
bind_next_first(self, f, w) ==
    LET next_io == CallFn(f, NoneV, w) IN
    IF next_io.out.tag = "raise" THEN next_io
    ELSE LET second == IO_run(next_io.out.v, next_io.w) IN
         IF second.out.tag = "raise" THEN second
         ELSE LET first == Invoke(self, second.w) IN
              IF first.out.tag = "raise" THEN first ELSE Res(second.out, first.w)

\* A bind that returns the next effect without running it.
bind_next_unrun(self, f, w) ==
    LET result == Invoke(self, w) IN
    IF result.out.tag = "raise" THEN result
    ELSE CallFn(f, result.out.v, result.w)

\* IO.bind.new_effect
bind_new_effect(self, f, w) ==
    LET result == Invoke(self, w) IN
    IF result.out.tag = "raise" THEN result
    ELSE LET next_io == CallFn(f, result.out.v, result.w) IN
         IF next_io.out.tag = "raise" THEN next_io
         ELSE IF IsIO(next_io.out.v) THEN IO_run(next_io.out.v, next_io.w)
         ELSE Res(Raise(ExcV("AttributeError", "run", 0)), next_io.w)

\* An attempt whose Left carries a message instead of the raised error.
attempt_message(self, w) ==
    LET result == Invoke(self, w) IN
    IF result.out.tag = "return" THEN Res(Return(Either_right(result.out.v)), result.w)
    ELSE IF IsException(result.out.e) THEN Res(Return(Either_left(StrV("error"))), result.w)
    ELSE result

\* IO.attempt.effect
attempt_effect(self, w) ==
    LET result == Invoke(self, w) IN
    IF result.out.tag = "return" THEN Res(Return(Either_right(result.out.v)), result.w)
    ELSE IF IsException(result.out.e) THEN Res(Return(Either_left(result.out.e)), result.w)
    ELSE result

\* A recover that hands every result, raised or not, to the handler.
recover_always(self, handler, w) ==
    LET result == Invoke(self, w) IN
    IF result.out.tag = "return" THEN CallFn(handler, result.out.v, result.w)
    ELSE IF IsException(result.out.e) THEN CallFn(handler, result.out.e, result.w)
    ELSE result

\* IO.recover.effect
recover_effect(self, handler, w) ==
    LET result == Invoke(self, w) IN
    IF result.out.tag = "return" THEN result
    ELSE IF IsException(result.out.e) THEN CallFn(handler, result.out.e, result.w)
    ELSE result

\* A retry that keeps the first error it saw and raises that one.
RECURSIVE retry_first_error(_, _, _, _, _)
retry_first_error(self, max_attempts, attempt, last_exception, w) ==
    IF attempt >= max_attempts
    THEN IF last_exception.ty = "exc" THEN Res(Raise(last_exception), w)
         ELSE Res(Raise(ExcV("TypeError", "raise", 0)), w)
    ELSE LET result == Invoke(self, w) IN
         IF result.out.tag = "return" THEN result
         ELSE IF ~IsException(result.out.e) THEN result
         ELSE retry_first_error(self, max_attempts, attempt + 1,
                  IF last_exception.ty = "exc" THEN last_exception ELSE result.out.e,
                  result.w)

\* A retry that makes its first attempt whatever max_attempts is.
RECURSIVE retry_at_least_once(_, _, _, _, _)
retry_at_least_once(self, max_attempts, attempt, last_exception, w) ==
    IF attempt >= max_attempts /\ attempt > 0
    THEN IF last_exception.ty = "exc" THEN Res(Raise(last_exception), w)
         ELSE Res(Raise(ExcV("TypeError", "raise", 0)), w)
    ELSE LET result == Invoke(self, w) IN
         IF result.out.tag = "return" THEN result
         ELSE IF ~IsException(result.out.e) THEN result
         ELSE IF attempt >= max_attempts - 1 THEN Res(Raise(result.out.e), result.w)
         ELSE retry_at_least_once(self, max_attempts, attempt + 1, result.out.e, result.w)

\* A retry that takes a returned Left for a failed attempt and goes on.
RECURSIVE retry_on_left(_, _, _, _, _)
retry_on_left(self, max_attempts, attempt, last_exception, w) ==
    IF attempt >= max_attempts
    THEN IF last_exception.ty = "exc" THEN Res(Raise(last_exception), w)
         ELSE Res(Raise(ExcV("TypeError", "raise", 0)), w)
    ELSE LET result == Invoke(self, w) IN
         IF result.out.tag = "return"
         THEN IF result.out.v.ty = "either" /\ ~result.out.v.is_right
                    /\ attempt < max_attempts - 1
              THEN retry_on_left(self, max_attempts, attempt + 1, last_exception, result.w)
              ELSE result
         ELSE IF ~IsException(result.out.e) THEN result
         ELSE IF attempt = max_attempts - 1 THEN Res(Raise(result.out.e), result.w)
         ELSE retry_on_left(self, max_attempts, attempt + 1, result.out.e, result.w)

\* IO.retry.effect, from the iteration `attempt` of its for loop on.
RECURSIVE retry_loop(_, _, _, _, _)
retry_loop(self, max_attempts, attempt, last_exception, w) ==
    IF attempt >= max_attempts
    THEN \* raise last_exception
         IF last_exception.ty = "exc" THEN Res(Raise(last_exception), w)
         ELSE Res(Raise(ExcV("TypeError", "raise", 0)), w)
    ELSE LET result == Invoke(self, w) IN
         IF result.out.tag = "return" THEN result
         ELSE IF ~IsException(result.out.e) THEN result
         ELSE IF attempt = max_attempts - 1 THEN Res(Raise(result.out.e), result.w)
         ELSE retry_loop(self, max_attempts, attempt + 1, result.out.e, result.w)

retry_effect(self, max_attempts, w) == retry_loop(self, max_attempts, 0, NoneV, w)

\* A sequence that collects the results newest first.
RECURSIVE sequence_reversed(_, _, _, _)
sequence_reversed(io_list, i, acc, w) ==
    IF i > Len(io_list) THEN Res(Return(ListV(acc)), w)
    ELSE LET result == IO_run(io_list[i], w) IN
         IF result.out.tag = "raise" THEN result
         ELSE sequence_reversed(io_list, i + 1, <<result.out.v>> \o acc, result.w)

\* A sequence that goes on with the other effects when one raises, and
\* raises the first error once all have run.
RECURSIVE sequence_gathering(_, _, _, _)
sequence_gathering(io_list, i, acc, w) ==
    IF i > Len(io_list) THEN Res(Return(ListV(acc)), w)
    ELSE LET result == IO_run(io_list[i], w) IN
         IF result.out.tag = "raise"
         THEN Res(result.out, sequence_gathering(io_list, i + 1, acc, result.w).w)
         ELSE sequence_gathering(io_list, i + 1, Append(acc, result.out.v), result.w)

\* IO.sequence.effect: the list comprehension, from element i on.
RECURSIVE sequence_loop(_, _, _, _)
sequence_loop(io_list, i, acc, w) ==
    IF i > Len(io_list) THEN Res(Return(ListV(acc)), w)
    ELSE LET result == IO_run(io_list[i], w) IN
         IF result.out.tag = "raise" THEN result
         ELSE sequence_loop(io_list, i + 1, Append(acc, result.out.v), result.w)

sequence_effect(io_list, w) == sequence_loop(io_list, 1, <<>>, w)

\* A traverse that applies f to the items from the last one to the first.
RECURSIVE traverse_backwards(_, _, _, _, _)
traverse_backwards(items, f, i, acc, w) ==
    IF i > Len(items) THEN Res(Return(IO_sequence(acc)), w)
    ELSE LET io_i == CallFn(f, items[Len(items) + 1 - i], w) IN
         IF io_i.out.tag = "raise" THEN io_i
         ELSE traverse_backwards(items, f, i + 1, <<io_i.out.v>> \o acc, io_i.w)

\* IO.traverse: [f(item) for item in items], from item i on, then
\* IO.sequence of the list.
RECURSIVE traverse_loop(_, _, _, _, _)
traverse_loop(items, f, i, acc, w) ==
    IF i > Len(items) THEN Res(Return(IO_sequence(acc)), w)
    ELSE LET io_i == CallFn(f, items[i], w) IN
         IF io_i.out.tag = "raise" THEN io_i
         ELSE traverse_loop(items, f, i + 1, Append(acc, io_i.out.v), io_i.w)

IO_traverse(items, f, w) == traverse_loop(items, f, 1, <<>>, w)

\* HttpResponse(status_code, headers, body, request)
HttpResponse(status_code, request) ==
    [ty |-> "response", status_code |-> status_code, request |-> request]

\* What the server behind url does with the (n+1)-th request to it: it
\* answers with a status, or the connection fails and requests raises.
Server(url, n) ==
    CASE url = "/users" -> Return(IntV(200))
      [] url = "/missing" -> Return(IntV(404))
      [] url = "/down" -> Raise(ExcV("ConnectionError", url, n))

\* requests.get(request.url, **kwargs)
requests_get(request, w) ==
    LET url == Object(request, w).url
        resp == Server(url, w.calls[url])
    IN  Res(resp, Invoked(w, url, resp))

\* An effect of http_request without its try/except: what requests raises
\* leaves the effect.
http_effect_raising(request, resp) ==
    IF resp.out.tag = "raise" THEN resp
    ELSE Res(Return(Either_right(HttpResponse(resp.out.v.n, request))), resp.w)

\* http_request.effect, from the answer resp of requests.get on: the
\* response in a Right, an Exception in a Left.
http_effect_of(request, resp) ==
    CASE resp.out.tag = "return" ->
            Res(Return(Either_right(HttpResponse(resp.out.v.n, request))), resp.w)
      [] resp.out.tag = "raise" /\ IsException(resp.out.e) ->
            Res(Return(Either_left(resp.out.e)), resp.w)
      [] OTHER -> resp

\* http_request.effect
http_effect(request, w) == http_effect_of(request, requests_get(request, w))

\* http_request(request): IO(effect)
http_request(request) == [ty |-> "io", op |-> "http", request |-> request]

\* HttpStream(requests) and HttpStream.from_urls(urls)
HttpStream(requests) == [ty |-> "http_stream", requests |-> requests]
HttpStream_from_urls(urls, w) ==
    LET requests == [i \in 1..Len(urls) |-> Ref(Len(w.heap) + i)]
    IN  Res(Return(HttpStream(Stream_from_iterable(requests))),
            [w EXCEPT !.heap = @ \o [i \in 1..Len(urls) |-> HttpRequest(urls[i])]])

\* HttpStream.map_request, take, with_retry, with_headers and with_auth
HttpStream_map_request(self, f) == HttpStream(Stream_map(self.requests, f))
HttpStream_take(self, n) == HttpStream(Stream_take(self.requests, n))
HttpStream_with_retry(self, max_attempts) == HttpStream_map_request(self, AddRetry)
HttpStream_with_headers(self, headers) == HttpStream_map_request(self, AddHeaders(headers))
HttpStream_with_auth(self, token) ==
    HttpStream_with_headers(self, DictV([Authorization |-> "Bearer " \o token]))

\* HttpStream.execute: IO(effect), and the Stream(lambda:
\* response_generator()) its effect returns
HttpStream_execute(self) == [ty |-> "io", op |-> "execute", self |-> self]
Responses(self) == [ty |-> "stream", op |-> "responses", s |-> self.requests]
execute_effect(self, w) == Res(Return(Responses(self)), w)

\* self._effect(): the closure an IO value wraps, by the constructor that
\* made it.
Invoke(self, w) ==
    CASE self.op = "effect" -> CallClosure(self.c, w)
      [] self.op = "http" -> http_effect(self.request, w)
      [] self.op = "execute" -> execute_effect(self.self, w)
      [] self.op = "pure" -> Res(Return(self.v), w)
      [] self.op = "map" -> map_new_effect(self.io, self.f, w)
      [] self.op = "bind" -> bind_new_effect(self.io, self.f, w)
      [] self.op = "attempt" -> attempt_effect(self.io, w)
      [] self.op = "recover" -> recover_effect(self.io, self.f, w)
      [] self.op = "retry" -> retry_effect(self.io, self.n, w)
      [] self.op = "sequence" -> sequence_effect(self.ios, w)

\* A run that keeps the result of a closure it has invoked before.
IO_run_memo(self, w) ==
    IF self.op = "effect" /\ w.calls[self.c] > 0
    THEN Res(Closure(self.c, w.calls[self.c] - 1), w)
    ELSE Invoke(self, w)

\* IO.run
IO_run(self, w) == Invoke(self, w)

----------------------------------------------------------------------------
(* Streams: self._source() makes a fresh iterator, next() advances it.     *)

\* An iterator over a tuple, itertools.count(start), and the iterators the
\* builtins map, filter, itertools.islice, zip and itertools.chain return.
ListIter(xs) == [k |-> "list", xs |-> xs, i |-> 1]
CountIter(start) == [k |-> "count", start |-> start, n |-> start]
MapIter(f, it) == [k |-> "map", f |-> f, it |-> it]
FilterIter(predicate, it) == [k |-> "filter", f |-> predicate, it |-> it]
IsliceIter(it, n) == [k |-> "islice", it |-> it, n |-> n]
ZipIter(a, b) == [k |-> "zip", a |-> a, b |-> b]
ChainIter(a, b) == [k |-> "chain", a |-> a, b |-> b]
Finished == [k |-> "done"]

\* The generator objects of Stream.bind, Stream.distinct and Stream.chunk
\* before their first next(): none has called self._source() yet.
BindGen(self, f) == [k |-> "bind", src |-> self, f |-> f, outer |-> NoneV, inner |-> NoneV]

\* A distinct whose `seen` set outlives the traversal: it starts from the
\* elements the previous to_list() returned.
DistinctGen_shared(self) ==
    [k |-> "distinct", src |-> self, it |-> NoneV,
     seen |-> IF stream.op = "to_list" /\ stream.out.tag = "return"
              THEN {stream.out.v.xs[i] : i \in 1..Len(stream.out.v.xs)} ELSE {}]

DistinctGen(self) == [k |-> "distinct", src |-> self, it |-> NoneV, seen |-> {}]
ChunkGen(self, size) == [k |-> "chunk", src |-> self, it |-> NoneV, size |-> size]
\* The generator object of HttpStream.execute before its first next().
ResponseGen(requests) == [k |-> "responses", src |-> requests, it |-> NoneV]

\* What next(it) and self._source() give: an element and the advanced
\* iterator, the end of the iteration, an error, or no answer at all (Hang:
\* the call went past the first MaxCount elements of an unbounded
\* itertools.count, which is as far as the model follows it).
Yield(v, it, w) == [tag |-> "yield", v |-> v, it |-> it, w |-> w]
Stop(w) == [tag |-> "stop", it |-> Finished, w |-> w]
Throw(e, w) == [tag |-> "raise", e |-> e, it |-> Finished, w |-> w]
Hang(w) == [tag |-> "hang", it |-> Finished, w |-> w]
Made(it, w) == [tag |-> "ok", it |-> it, w |-> w]

\* The outcome of a terminal operation whose iteration ended as r.
Ended(r) == IF r.tag = "raise" THEN Res(Raise(r.e), r.w) ELSE Res([tag |-> "hang"], r.w)

\* bool(v), hash(v)
Truthy(v) ==
    CASE v.ty = "bool" -> v.b
      [] v.ty = "int" -> v.n # 0
      [] v.ty = "str" -> v.s # ""
      [] v.ty \in {"list", "tuple"} -> v.xs # <<>>
      [] v.ty = "none" -> FALSE
      [] OTHER -> TRUE
RECURSIVE Hashable(_)
Hashable(v) ==
    CASE v.ty = "list" -> FALSE
      [] v.ty = "tuple" -> \A i \in 1..Len(v.xs) : Hashable(v.xs[i])
      [] OTHER -> TRUE

RECURSIVE Next_(_, _)
RECURSIVE Source(_, _)

\* What a loop does with r, the answer of next(): Body(r) when r is an
\* element; a loop that has no answer for the end of the iteration ends as
\* r does.
ForItem(r, Body(_)) == IF r.tag = "yield" THEN Body(r) ELSE r
\* What the code does with s, the answer of self._source(): Body(s) when it
\* is an iterator.
FromSource(s, Body(_)) == IF s.tag = "ok" THEN Body(s) ELSE s
\* What the code does with c, the answer of a call of a user function:
\* Body(c) when it returned, its error otherwise.
Called(c, Body(_)) == IF c.out.tag = "raise" THEN Throw(c.out.e, c.w) ELSE Body(c)

\* for _ in range(n): next(it, None), after r: the answer of self._source()
\* at first, of the next() before afterwards.
RECURSIVE skip_loop(_, _)
skip_loop(r, n) ==
    CASE r.tag \in {"raise", "hang"} -> r
      [] r.tag \notin {"raise", "hang"} /\ n <= 0 -> Made(r.it, r.w)
      [] OTHER -> skip_loop(Next_(r.it, r.w), n - 1)

\* list(itertools.islice(it, size)), from the elements in acc: islice_append
\* has r, the answer of next(it).
RECURSIVE islice_list(_, _, _, _)
islice_append(r, size, acc) ==
    CASE r.tag = "yield" -> islice_list(r.it, size - 1, Append(acc, r.v), r.w)
      [] r.tag = "stop" -> [tag |-> "ok", xs |-> acc, it |-> r.it, w |-> r.w]
      [] OTHER -> r
islice_list(it, size, acc, w) ==
    IF size = 0 THEN [tag |-> "ok", xs |-> acc, it |-> it, w |-> w]
    ELSE islice_append(Next_(it, w), size, acc)

\* new_source of map, filter, take and skip, with s the answer of
\* self._source().
one_source(self, s) ==
    CASE s.tag # "ok" -> s
      [] s.tag = "ok" /\ self.op = "map" -> Made(MapIter(self.f, s.it), s.w)
      [] s.tag = "ok" /\ self.op = "filter" -> Made(FilterIter(self.f, s.it), s.w)
      [] s.tag = "ok" /\ self.op = "take" /\ self.n < 0 ->
            Throw(ExcV("ValueError", "islice", 0), s.w)
      [] s.tag = "ok" /\ self.op = "take" /\ self.n >= 0 -> Made(IsliceIter(s.it, self.n), s.w)
      [] s.tag = "ok" /\ self.op = "skip" -> skip_loop(s, self.n)

\* self._source()
Source(self, w) ==
    CASE self.op = "of" -> Made(ListIter(self.xs), w)
      [] self.op = "range" -> Made(CountIter(self.start), w)
      [] self.op = "distinct" -> Made(DistinctGen(self.s), w)
      [] self.op = "chunk" -> Made(ChunkGen(self.s, self.n), w)
      [] self.op = "bind" -> Made(BindGen(self.s, self.f), w)
      [] self.op = "responses" -> Made(ResponseGen(self.s), w)
      [] self.op \in {"zip", "concat"} ->
            FromSource(Source(self.s, w), LAMBDA a :
                FromSource(Source(self.other, a.w), LAMBDA b :
                    Made(IF self.op = "zip" THEN ZipIter(a.it, b.it)
                         ELSE ChainIter(a.it, b.it), b.w)))
      [] OTHER -> one_source(self, Source(self.s, w))

\* The iterator a generator loops over: self._source() at its first next().
Upstream(it, w) == IF it.it = NoneV THEN Source(it.src, w) ELSE Made(it.it, w)

\* next() of a map object
map_next(it, w) ==
    ForItem(Next_(it.it, w), LAMBDA r :
        Called(CallFn(it.f, r.v, r.w), LAMBDA c :
            Yield(c.out.v, [it EXCEPT !.it = r.it], c.w)))

\* next() of a filter object: r is the answer of next() of its iterator, c
\* of the call predicate(item).
RECURSIVE filter_next(_, _)
filter_test(it, r, c) ==
    CASE c.out.tag = "raise" -> Throw(c.out.e, c.w)
      [] c.out.tag # "raise" /\ Truthy(c.out.v) -> Yield(r.v, [it EXCEPT !.it = r.it], c.w)
      [] OTHER -> filter_next([it EXCEPT !.it = r.it], c.w)
filter_item(it, r) ==
    IF r.tag # "yield" THEN r ELSE filter_test(it, r, CallFn(it.f, r.v, r.w))
filter_next(it, w) == filter_item(it, Next_(it.it, w))

\* An islice that fetches the next element before it looks at its count.
islice_next_fetching(it, w) ==
    ForItem(Next_(it.it, w), LAMBDA r :
        IF it.n <= 0 THEN Stop(r.w)
        ELSE Yield(r.v, [it EXCEPT !.it = r.it, !.n = @ - 1], r.w))

\* next() of itertools.islice(it, n)
islice_next(it, w) ==
    IF it.n <= 0 THEN Stop(w)
    ELSE ForItem(Next_(it.it, w), LAMBDA r :
            Yield(r.v, [it EXCEPT !.it = r.it, !.n = @ - 1], r.w))

\* next() of a zip object
zip_next(it, w) ==
    ForItem(Next_(it.a, w), LAMBDA a :
        ForItem(Next_(it.b, a.w), LAMBDA b :
            Yield(TupleV(<<a.v, b.v>>), [it EXCEPT !.a = a.it, !.b = b.it], b.w)))

\* next() of itertools.chain(a, b): the first iterator until it ends, the
\* second one then.
RECURSIVE chain_next(_, _)
chain_a(it, a) ==
    CASE a.tag = "yield" -> Yield(a.v, [it EXCEPT !.a = a.it], a.w)
      [] a.tag = "stop" -> chain_next([it EXCEPT !.a = Finished], a.w)
      [] OTHER -> a
chain_next(it, w) ==
    IF it.a # Finished THEN chain_a(it, Next_(it.a, w))
    ELSE ForItem(Next_(it.b, w), LAMBDA b : Yield(b.v, [it EXCEPT !.b = b.it], b.w))

RECURSIVE distinct_new_source(_, _)

\* A distinct that drops an element only when it repeats the one before it.
distinct_consecutive(it, r) ==
    CASE r.tag # "yield" -> r
      [] r.tag = "yield" /\ ~Hashable(r.v) -> Throw(ExcV("TypeError", "hash", 0), r.w)
      [] r.tag = "yield" /\ Hashable(r.v) /\ r.v \in it.seen ->
            distinct_new_source([it EXCEPT !.it = r.it], r.w)
      [] OTHER -> Yield(r.v, [it EXCEPT !.it = r.it, !.seen = {r.v}], r.w)

\* Stream.distinct.new_source, the body of the for loop: r is the answer of
\* next() of the iterator. `item not in seen` hashes item.
distinct_item(it, r) ==
    CASE r.tag # "yield" -> r
      [] r.tag = "yield" /\ ~Hashable(r.v) -> Throw(ExcV("TypeError", "hash", 0), r.w)
      [] r.tag = "yield" /\ Hashable(r.v) /\ r.v \in it.seen ->
            distinct_new_source([it EXCEPT !.it = r.it], r.w)
      [] OTHER -> Yield(r.v, [it EXCEPT !.it = r.it, !.seen = @ \cup {r.v}], r.w)

\* Stream.distinct.new_source: next() of the generator.
distinct_new_source(it, w) ==
    FromSource(Upstream(it, w), LAMBDA s : distinct_item(it, Next_(s.it, s.w)))

\* A chunk that yields full groups only.
chunk_full_only(it, c) ==
    CASE c.tag # "ok" -> c
      [] c.tag = "ok" /\ (Len(c.xs) < it.size \/ c.xs = <<>>) -> Stop(c.w)
      [] OTHER -> Yield(ListV(c.xs), [it EXCEPT !.it = c.it], c.w)

\* Stream.chunk.new_source, the body of the while loop: c is the answer of
\* list(itertools.islice(it, size)).
chunk_list(it, c) ==
    CASE c.tag # "ok" -> c
      [] c.tag = "ok" /\ c.xs = <<>> -> Stop(c.w)
      [] OTHER -> Yield(ListV(c.xs), [it EXCEPT !.it = c.it], c.w)

\* Stream.chunk.new_source: next() of the generator.
chunk_new_source(it, w) ==
    FromSource(Upstream(it, w), LAMBDA s :
        IF it.size < 0 THEN Throw(ExcV("ValueError", "islice", 0), s.w)
        ELSE chunk_list(it, islice_list(s.it, it.size, <<>>, s.w)))

RECURSIVE bind_new_source(_, _)

\* for item in self._source(): the next outer element of Stream.bind.
bind_outer(it, w) ==
    IF it.outer = NoneV
    THEN FromSource(Source(it.src, w), LAMBDA s : Next_(s.it, s.w))
    ELSE Next_(it.outer, w)

\* for sub_item in f(item): the iterator over what f returned for item.
bind_inner(it, item) ==
    Called(CallFn(it.f, item.v, item.w), LAMBDA sub :
        IF ~IsStream(sub.out.v) THEN Throw(ExcV("TypeError", "iter", 0), sub.w)
        ELSE Source(sub.out.v, sub.w))

\* A flat map that leaves the generator once the first sub-stream is spent.
bind_first_only(it, sub) ==
    CASE sub.tag = "yield" -> Yield(sub.v, [it EXCEPT !.inner = sub.it], sub.w)
      [] sub.tag = "stop" -> Stop(sub.w)
      [] OTHER -> sub

\* Stream.bind.new_source, the inner loop: sub is the answer of next() of
\* the iterator over f(item); at its end the outer loop goes on.
bind_sub_item(it, sub) ==
    CASE sub.tag = "yield" -> Yield(sub.v, [it EXCEPT !.inner = sub.it], sub.w)
      [] sub.tag = "stop" -> bind_new_source([it EXCEPT !.inner = NoneV], sub.w)
      [] OTHER -> sub

\* A flat map that asks f for the sub-stream of the following outer element
\* as soon as it has the current one.
bind_ahead(it, ahead, w) ==
    IF ahead.tag = "yield" THEN CallFn(it.f, ahead.v, ahead.w).w ELSE w
bind_prefetching(it, item, sub) ==
    IF sub.tag # "ok" THEN sub
    ELSE bind_new_source([it EXCEPT !.outer = item.it, !.inner = sub.it],
                         bind_ahead(it, Next_(item.it, sub.w), sub.w))

\* Stream.bind.new_source, the outer loop: item is its next element and sub
\* the iterator over f(item), which the inner loop starts on.
bind_enter(it, item, sub) ==
    IF sub.tag # "ok" THEN sub
    ELSE bind_new_source([it EXCEPT !.outer = item.it, !.inner = sub.it], sub.w)
bind_item(it, item) ==
    IF item.tag # "yield" THEN item ELSE bind_enter(it, item, bind_inner(it, item))

\* Stream.bind.new_source: next() of the generator.
bind_new_source(it, w) ==
    IF it.inner # NoneV THEN bind_sub_item(it, Next_(it.inner, w))
    ELSE bind_item(it, bind_outer(it, w))

\* A response generator that performs the request after the one it yields
\* before it yields.
response_ahead(ahead) ==
    IF ahead.tag = "yield" THEN IO_run(http_request(ahead.v), ahead.w).w ELSE ahead.w
response_generator_ahead(it, w) ==
    FromSource(Upstream(it, w), LAMBDA s :
        ForItem(Next_(s.it, s.w), LAMBDA request :
            Called(IO_run(http_request(request.v), request.w), LAMBDA result :
                Yield(result.out.v, [it EXCEPT !.it = request.it],
                      response_ahead(Next_(request.it, result.w))))))

\* HttpStream.execute.effect.response_generator: next() of the generator.
response_generator(it, w) ==
    FromSource(Upstream(it, w), LAMBDA s :
        ForItem(Next_(s.it, s.w), LAMBDA request :
            Called(IO_run(http_request(request.v), request.w), LAMBDA result :
                Yield(result.out.v, [it EXCEPT !.it = request.it], result.w))))

\* next(it)
Next_(it, w) ==
    CASE it.k = "done" -> Stop(w)
      [] it.k = "list" ->
            IF it.i <= Len(it.xs) THEN Yield(it.xs[it.i], [it EXCEPT !.i = @ + 1], w)
            ELSE Stop(w)
      [] it.k = "count" ->
            IF it.n - it.start >= MaxCount THEN Hang(w)
            ELSE Yield(IntV(it.n), [it EXCEPT !.n = @ + 1], w)
      [] it.k = "map" -> map_next(it, w)
      [] it.k = "filter" -> filter_next(it, w)
      [] it.k = "islice" -> islice_next(it, w)
      [] it.k = "zip" -> zip_next(it, w)
      [] it.k = "chain" -> chain_next(it, w)
      [] it.k = "distinct" -> distinct_new_source(it, w)
      [] it.k = "chunk" -> chunk_new_source(it, w)
      [] it.k = "bind" -> bind_new_source(it, w)
      [] it.k = "responses" -> response_generator(it, w)

\* list(it): r is the answer of self._source() at first, of next(it)
\* afterwards, and acc has the elements so far.
RECURSIVE list(_, _)
list(r, acc) ==
    CASE r.tag = "ok" -> list(Next_(r.it, r.w), acc)
      [] r.tag = "yield" -> list(Next_(r.it, r.w), Append(acc, r.v))
      [] r.tag = "stop" -> Res(Return(ListV(acc)), r.w)
      [] OTHER -> Ended(r)

\* Stream.to_list
Stream_to_list(self, w) == list(Source(self, w), <<>>)

\* sum(1 for _ in self._source()): r is the outcome of the traversal.
count_of(r) ==
    IF r.out.tag # "return" THEN r ELSE Res(Return(IntV(Len(r.out.v.xs))), r.w)
\* Stream.count
Stream_count(self, w) == count_of(Stream_to_list(self, w))

\* Stream.reduce, the for loop: r is the answer of self._source() at first,
\* of next() afterwards; c is the answer of f(result, item).
RECURSIVE reduce_loop(_, _, _)
reduce_call(r, f, c) ==
    IF c.out.tag = "raise" THEN c ELSE reduce_loop(Next_(r.it, c.w), f, c.out.v)
reduce_loop(r, f, result) ==
    CASE r.tag = "ok" -> reduce_loop(Next_(r.it, r.w), f, result)
      [] r.tag = "yield" -> reduce_call(r, f, CallFn(f, TupleV(<<result, r.v>>), r.w))
      [] r.tag = "stop" -> Res(Return(result), r.w)
      [] OTHER -> Ended(r)

\* Stream.reduce
Stream_reduce(self, f, initial, w) == reduce_loop(Source(self, w), f, initial)

\* Stream.find, the for loop: r is the answer of self._source() at first, of
\* next() afterwards.
RECURSIVE find_loop(_, _)

\* A find that goes through the whole stream and keeps the last match.
find_later(r, c, rest) ==
    IF rest.out.tag = "return" /\ ~rest.out.v.is_right /\ Truthy(c.out.v)
    THEN Res(Return(Either_right(r.v)), rest.w)
    ELSE rest
find_last(r, predicate, c) ==
    IF c.out.tag = "raise" THEN c
    ELSE find_later(r, c, find_loop(Next_(r.it, c.w), predicate))

\* if predicate(item): return Either.right(item); c is the answer of
\* predicate(item).
find_test(r, predicate, c) ==
    CASE c.out.tag = "raise" -> c
      [] c.out.tag # "raise" /\ Truthy(c.out.v) -> Res(Return(Either_right(r.v)), c.w)
      [] OTHER -> find_loop(Next_(r.it, c.w), predicate)
find_loop(r, predicate) ==
    CASE r.tag = "ok" -> find_loop(Next_(r.it, r.w), predicate)
      [] r.tag = "yield" -> find_test(r, predicate, CallFn(predicate, r.v, r.w))
      [] r.tag = "stop" -> Res(Return(Either_left(StrV("No element found"))), r.w)
      [] OTHER -> Ended(r)

\* Stream.find
Stream_find(self, predicate, w) == find_loop(Source(self, w), predicate)

----------------------------------------------------------------------------
(* The program: it builds one IO value by composition and runs it.         *)

RECURSIVE Size(_)
RECURSIVE SizeAll(_)
SizeAll(ios) == IF ios = <<>> THEN 0 ELSE Size(Head(ios)) + SizeAll(Tail(ios))
Size(t) ==
    CASE t.ty = "none" -> 0
      [] t.op \in {"effect", "pure", "http"} -> 1
      [] t.op = "bind" /\ t.f.fn = "const" -> 1 + Size(t.io) + Size(t.f.io)
      [] t.op \in {"map", "bind", "attempt", "recover", "retry"} -> 1 + Size(t.io)
      [] t.op = "sequence" -> 1 + SizeAll(t.ios)

Prims == {IO(c) : c \in Closures} \cup {IO_pure(IntV(5))}
MapFns == {Fn("add3"), Fn("failing_bind")}
BindFns == {Fn("pure_add3"), Fn("failing_bind")}
Handlers == {Fn("h_default"), Fn("failing_bind")}
\* The items and the functions handed to IO.traverse.
ItemLists == UNION {[1..k -> {IntV(1), IntV(2), StrV("a")}] : k \in 0..(MaxSize - 1)}
TraverseFns == {Fn("effect_fn"), Fn("pure_add3"), Fn("failing_bind")}
\* The URLs of the requests made into an IO value by http_request.
RequestUrls == {"/users", "/down"}
\* Lists of at most n primitive IO values (none when n < 0).
PrimLists(n) == UNION {[1..k -> Prims] : k \in 0..n}

Built(op) == [op |-> op, pre |-> calls]
Room(n) == io # NoIO /\ Size(io) + n <= MaxSize

Init ==
    /\ io = NoIO
    /\ calls = [n \in Counted |-> 0]
    /\ nruns = 0
    /\ last = [op |-> "init", pre |-> [n \in Counted |-> 0]]
    /\ law = [name |-> "none"]
    /\ chain = [op |-> "none"]
    /\ stream = [op |-> "none"]
    /\ pool = [op |-> "none"]
    /\ http = [op |-> "none"]
    /\ heap = <<>>

\* io = IO(closure) or io = IO.pure(5)
New(p) ==
    /\ io = NoIO /\ last.op = "init"
    /\ io' = p
    /\ last' = Built("new")
    /\ UNCHANGED <<calls, nruns, law, chain, stream, pool, http, heap>>

\* io = http_request(HttpRequest(url))
NewRequest(url) ==
    /\ io = NoIO /\ last.op = "init"
    /\ heap' = Append(heap, HttpRequest(url))
    /\ io' = http_request(Ref(Len(heap) + 1))
    /\ last' = Built("new")
    /\ UNCHANGED <<calls, nruns, law, chain, stream, pool, http>>

\* A map that runs the effect while it composes.
Map_eager(f) ==
    /\ Room(1)
    /\ io' = IO_map(io, f)
    /\ last' = Built("map")
    /\ calls' = Invoke(io, [World(calls, <<>>) EXCEPT !.heap = heap]).w.calls
    /\ UNCHANGED <<nruns, law, chain, stream, pool, http, heap>>

\* io = io.map(f)
Map(f) ==
    /\ Room(1)
    /\ io' = IO_map(io, f)
    /\ last' = Built("map")
    /\ UNCHANGED <<calls, nruns, law, chain, stream, pool, http, heap>>

\* io = io.bind(f)
Bind(f) ==
    /\ Room(1)
    /\ io' = IO_bind(io, f)
    /\ last' = Built("bind")
    /\ UNCHANGED <<calls, nruns, law, chain, stream, pool, http, heap>>

\* io = io >> other
Then(other) ==
    /\ Room(1 + Size(other))
    /\ io' = IO_rshift(io, other)
    /\ last' = Built("rshift")
    /\ UNCHANGED <<calls, nruns, law, chain, stream, pool, http, heap>>

\* io = io.attempt()
Attempt ==
    /\ Room(1)
    /\ io' = IO_attempt(io)
    /\ last' = Built("attempt")
    /\ UNCHANGED <<calls, nruns, law, chain, stream, pool, http, heap>>

\* io = io.recover(handler)
Recover(handler) ==
    /\ Room(1)
    /\ io' = IO_recover(io, handler)
    /\ last' = Built("recover")
    /\ UNCHANGED <<calls, nruns, law, chain, stream, pool, http, heap>>

\* io = io.retry(max_attempts)
Retry(max_attempts) ==
    /\ Room(1)
    /\ io' = IO_retry(io, max_attempts)
    /\ last' = Built("retry")
    /\ UNCHANGED <<calls, nruns, law, chain, stream, pool, http, heap>>

\* io = IO.sequence(before + [io] + after); a list of primitive values may
\* have MaxSize elements
Sequence(before, after) ==
    /\ \/ Room(1 + Len(before) + Len(after))
       \/ io # NoIO /\ Size(io) = 1 /\ 1 + Len(before) + Len(after) <= MaxSize
    /\ io' = IO_sequence(before \o <<io>> \o after)
    /\ last' = Built("sequence")
    /\ UNCHANGED <<calls, nruns, law, chain, stream, pool, http, heap>>

\* io = IO.sequence([])
SequenceEmpty ==
    /\ io = NoIO /\ last.op = "init"
    /\ io' = IO_sequence(<<>>)
    /\ last' = Built("sequence")
    /\ UNCHANGED <<calls, nruns, law, chain, stream, pool, http, heap>>

\* io = IO.traverse(items, f); when f raises, io is not assigned and the
\* program ends with that error
Traverse(items, f) ==
    /\ io = NoIO
    /\ last.op = "init"
    /\ \E r \in {IO_traverse(items, f, World(calls, <<>>))} :
        /\ io' = IF r.out.tag = "return" THEN r.out.v ELSE NoIO
        /\ calls' = r.w.calls
        /\ last' = [op |-> "traverse", items |-> items, f |-> f, pre |-> calls,
                    log |-> r.w.log, out |-> r.out]
    /\ UNCHANGED <<nruns, law, chain, stream, pool, http, heap>>

\* The call of IO.traverse that made io, when nothing but run() came after.
MadeBy ==
    CASE last.op = "traverse" -> last
      [] last.op = "run" -> last.made
      [] OTHER -> NoneV

\* io.run()
Run ==
    /\ io # NoIO
    /\ nruns < MaxRuns
    /\ LET r == IO_run(io, [World(calls, <<>>) EXCEPT !.heap = heap]) IN
        /\ calls' = r.w.calls
        /\ last' = [op |-> "run", io |-> io, pre |-> calls, log |-> r.w.log, out |-> r.out,
                    made |-> MadeBy]
    /\ nruns' = nruns + 1
    /\ UNCHANGED <<io, law, chain, stream, pool, http, heap>>

Next ==
    \/ \E p \in Prims : New(p)
    \/ \E url \in RequestUrls : NewRequest(url)
    \/ \E f \in MapFns : Map(f)
    \/ \E f \in BindFns : Bind(f)
    \/ \E p \in Prims : Then(p)
    \/ Attempt
    \/ \E h \in Handlers : Recover(h)
    \/ \E n \in -1..MaxAttempts : Retry(n)
    \/ \E b \in PrimLists(MaxSize - Size(io)) :
          \E a \in PrimLists(MaxSize - Size(io) - Len(b)) : Sequence(b, a)
    \/ SequenceEmpty
    \/ \E items \in ItemLists, f \in TraverseFns : Traverse(items, f)
    \/ Run

Spec == Init /\ [][Next]_vars

----------------------------------------------------------------------------
(* Vocabulary of the properties.                                           *)

\* The last operation was run() of an IO value built by constructor op.
Ran(op) == last.op = "run" /\ last.io.op = op
\* The world that run() started from.
W0 == [World(last.pre, <<>>) EXCEPT !.heap = heap]
IsPrefix(a, b) == Len(a) <= Len(b) /\ SubSeq(b, 1, Len(a)) = a
Min(S) == CHOOSE x \in S : \A y \in S : x <= y

\* other never invokes closure c (other is a primitive IO value).
FreeOf(other, c) == other.op = "pure" \/ (other.op = "effect" /\ other.c # c)

\* t is a map/bind pipeline whose innermost IO wraps closure c, and no effect
\* a bind function of it returns invokes c again.
RECURSIVE MapBindOver(_, _)
MapBindOver(t, c) ==
    CASE t.op = "effect" -> t.c = c
      [] t.op \in {"map", "bind"} ->
            /\ t.f.fn = "const" => FreeOf(t.f.io, c)
            /\ MapBindOver(t.io, c)
      [] OTHER -> FALSE

\* The runs of the effects of io_list from element i on, one after the other
\* from world w, each with a log of its own, up to the first that raises.
RECURSIVE RunsInOrder(_, _, _)
RunsInOrder(io_list, i, w) ==
    IF i > Len(io_list) THEN <<>>
    ELSE LET r == IO_run(io_list[i], [w EXCEPT !.log = <<>>]) IN
         IF r.out.tag = "raise" THEN <<r>>
         ELSE <<r>> \o RunsInOrder(io_list, i + 1, r.w)

RECURSIVE ConcatLogs(_)
ConcatLogs(rs) == IF rs = <<>> THEN <<>> ELSE Head(rs).w.log \o ConcatLogs(Tail(rs))

----------------------------------------------------------------------------
(* Properties of the IO monad (specification Spec).                        *)

\* C4: describing an effect executes nothing. While no run() has been called
\* every closure and every function handed to map/bind/recover has been
\* invoked 0 times, whatever was composed, and no request has been sent; and
\* constructing or composing with map, bind, attempt, recover, retry or
\* IO.sequence never changes an invocation count. (IO.traverse, which is not
\* among them, applies its function while it is called: the only counts
\* before a run() are those one call of traverse leaves for its function.)
C4_DescribingRunsNothing ==
    /\ nruns = 0 =>
          \/ \A n \in Counted : calls[n] = 0
          \/ \E f \in TraverseFns, items \in ItemLists :
                /\ calls = IO_traverse(items, f, World([n \in Counted |-> 0], <<>>)).w.calls
                /\ \A n \in Counted \ {f.fn} : calls[n] = 0
    /\ last.op \notin {"run", "traverse"} => calls = last.pre

C4_Witness ==
    /\ nruns = 0
    /\ io # NoIO /\ io.op = "retry" /\ io.io.op = "bind" /\ io.io.io.op = "effect"

\* C5: run() never memoizes. Every run() of IO(closure) invokes the closure
\* once more and returns what that very invocation produced, so after k runs
\* of the same IO value the closure has been invoked k times; every run() of a
\* map/bind pipeline invokes the innermost closure exactly once.
C5_RunNeverMemoizes ==
    /\ Ran("effect") =>
          /\ calls[last.io.c] = last.pre[last.io.c] + 1
          /\ last.out = Closure(last.io.c, last.pre[last.io.c])
    /\ (io # NoIO /\ io.op = "effect") => calls[io.c] = nruns
    /\ \A c \in Closures :
          (last.op = "run" /\ last.io.op \in {"map", "bind"} /\ MapBindOver(last.io, c))
              => calls[c] = last.pre[c] + 1

C5_Witness ==
    /\ nruns = 2
    /\ last.op = "run" /\ last.io = IO_map(IO("counter"), Fn("add3"))
    /\ last.pre["counter"] = 1 /\ calls["counter"] = 2
    /\ last.out = Return(IntV(5))

\* C6: in e1.bind(f).run() and e1 >> e2, everything e1 does comes first in the
\* order of calls. If e1 raises, nothing else is called and its error is the
\* outcome; if e1 returns, f is called next (for e1 >> e2: e2 runs next, from
\* the world e1 left) and the effect f returned runs after that.
C6_BindOrder ==
    Ran("bind") =>
        LET e1 == last.io.io
            f == last.io.f
            r1 == Invoke(e1, W0)
            n1 == Len(r1.w.log)
        IN  /\ IsPrefix(r1.w.log, last.log)
            /\ r1.out.tag = "raise" =>
                  /\ last.log = r1.w.log
                  /\ calls = r1.w.calls
                  /\ last.out = r1.out
            /\ (r1.out.tag = "return" /\ f.fn \in NamedFns) =>
                  /\ Len(last.log) > n1
                  /\ last.log[n1 + 1][1] = f.fn
                  /\ calls[f.fn] = r1.w.calls[f.fn] + 1
            /\ (r1.out.tag = "return" /\ f.fn = "const") =>
                  LET r2 == IO_run(f.io, World(r1.w.calls, <<>>))
                  IN  /\ last.log = r1.w.log \o r2.w.log
                      /\ last.out = r2.out

C6_Witness ==
    /\ last.op = "run" /\ last.io = IO_rshift(IO("counter"), IO("io_input"))
    /\ last.log = << <<"counter", "return">>, <<"io_input", "return">> >>
    /\ last.out = Return(StrV("line"))

\* C7: io.attempt().run() invokes io's closure exactly once; it returns
\* Right(value) when the closure returns value and Left(e), with e the very
\* error raised, when the closure raises an Exception e; it never raises an
\* Exception.
C7_Attempt ==
    Ran("attempt") =>
        LET r == Invoke(last.io.io, W0)
        IN  /\ last.log = r.w.log /\ calls = r.w.calls
            /\ r.out.tag = "return" => last.out = Return(Either_right(r.out.v))
            /\ (r.out.tag = "raise" /\ IsException(r.out.e))
                  => last.out = Return(Either_left(r.out.e))
            /\ last.out.tag = "raise" => ~IsException(last.out.e)
            /\ last.io.io.op = "effect" =>
                  /\ calls[last.io.io.c] = last.pre[last.io.io.c] + 1
                  /\ r.out = Closure(last.io.io.c, last.pre[last.io.io.c])

C7_Witness ==
    /\ last.op = "run" /\ last.io = IO_attempt(IO("failing"))
    /\ calls["failing"] = last.pre["failing"] + 1
    /\ last.out = Return(Either_left(ExcV("ValueError", "failing", last.pre["failing"])))

\* C8 as stated: io.recover(handler).run() returns the closure's value when
\* the closure does not raise, without calling handler; when the closure
\* raises e it calls handler(e) and returns that value; and the recovered
\* effect never raises, whatever the closure and the handler.
C8_RecoverNeverRaises ==
    Ran("recover") =>
        LET r == Invoke(last.io.io, W0)
        IN  /\ r.out.tag = "return" => (last.out = r.out /\ last.log = r.w.log)
            /\ r.out.tag = "raise" => last.log = CallFn(last.io.f, r.out.e, r.w).w.log
            /\ last.out.tag = "return"

\* C8 as amended: io.recover(handler).run() returns the closure's value when
\* the closure does not raise, without calling handler; when the closure
\* raises an Exception e it calls handler(e) once and ends as that call ends:
\* it returns handler's value, or raises the error handler raised. An error
\* that is no Exception passes through and handler is not called. The
\* recovered effect raises in those two cases only.
C8_Recover ==
    Ran("recover") =>
        LET r == Invoke(last.io.io, W0)
            h == CallFn(last.io.f, r.out.e, r.w)
        IN  /\ r.out.tag = "return" => (last.out = r.out /\ last.log = r.w.log)
            /\ (r.out.tag = "raise" /\ IsException(r.out.e)) =>
                  /\ last.out = h.out
                  /\ last.log = Append(r.w.log, <<last.io.f.fn, h.out.tag>>)
                  /\ last.io.f = Fn("h_default") => last.out = Return(IntV(0))
            /\ (r.out.tag = "raise" /\ ~IsException(r.out.e)) =>
                  (last.out = r.out /\ last.log = r.w.log)
            /\ last.out.tag = "raise" =>
                  /\ r.out.tag = "raise"
                  /\ IsException(r.out.e) => h.out = last.out

C8_Witness ==
    /\ last.op = "run" /\ last.io = IO_recover(IO("failing"), Fn("h_default"))
    /\ last.log = << <<"failing", "raise">>, <<"h_default", "return">> >>
    /\ last.out = Return(IntV(0))

\* C9: for max_attempts >= 1, IO(closure).retry(max_attempts).run() invokes
\* the closure one attempt after the other and stops at the first attempt
\* that does not raise an Exception. With k that attempt (k = max_attempts
\* when every attempt raises), the closure is invoked exactly k times and
\* the run ends as attempt k ended: with its value, or with the error the
\* last attempt raised. Every class of Exception leads to the next attempt.
C9_Retry ==
    (Ran("retry") /\ last.io.n >= 1 /\ last.io.io.op = "effect") =>
        LET c == last.io.io.c
            n == last.io.n
            p == last.pre[c]
            Att(j) == Closure(c, p + j - 1)
            Retried(j) == Att(j).tag = "raise" /\ IsException(Att(j).e)
            Stops == {j \in 1..n : ~Retried(j)}
            k == IF Stops = {} THEN n ELSE Min(Stops)
        IN  /\ calls[c] = p + k
            /\ last.out = Att(k)
            /\ last.log = [j \in 1..k |-> <<c, Att(j).tag>>]

C9_Witness ==
    /\ last.op = "run" /\ last.io = IO_retry(IO("flaky"), 3)
    /\ last.pre["flaky"] = 0 /\ calls["flaky"] = 3
    /\ last.log = << <<"flaky", "raise">>, <<"flaky", "raise">>, <<"flaky", "return">> >>
    /\ last.out = Return(IntV(42))

\* C10: IO.sequence(effects).run() runs the effects one at a time in list
\* order, each once and each to its end before the next starts; when it
\* returns, it returns a list as long as effects whose i-th entry is what the
\* i-th effect returned. For the empty list it returns the empty list and
\* runs nothing.
C10_Sequence ==
    Ran("sequence") =>
        LET io_list == last.io.ios
            rs == RunsInOrder(io_list, 1, W0)
        IN  /\ last.log = ConcatLogs(rs)
            /\ last.out.tag = "return" =>
                  /\ last.out.v.ty = "list"
                  /\ Len(last.out.v.xs) = Len(io_list)
                  /\ Len(rs) = Len(io_list)
                  /\ \A i \in 1..Len(io_list) : last.out.v.xs[i] = rs[i].out.v
            /\ (last.out.tag = "return" /\ \A i \in 1..Len(io_list) : io_list[i].op = "effect")
                  => last.log = [i \in 1..Len(io_list) |-> <<io_list[i].c, "return">>]
            /\ io_list = <<>> =>
                  (last.out = Return(ListV(<<>>)) /\ last.log = <<>> /\ calls = last.pre)

C10_Witness ==
    /\ last.op = "run" /\ last.io = IO_sequence(<<IO("io_input"), IO("counter")>>)
    /\ last.pre["counter"] = 0
    /\ last.log = << <<"io_input", "return">>, <<"counter", "return">> >>
    /\ last.out = Return(ListV(<<StrV("line"), IntV(1)>>))

----------------------------------------------------------------------------
(* Properties of IO.traverse, IO.sequence and IO.retry (specification      *)
(* Spec).                                                                   *)

\* What f gives for the i-th item of the traverse call t, as its i-th call
\* since then.
EffectOf(t, i) ==
    CallFn(t.f, t.items[i], World([t.pre EXCEPT ![t.f.fn] = @ + i - 1], <<>>)).out
\* The calls of the function named f in a log.
CallsOf(f, log) == {k \in DOMAIN log : log[k][1] = f}

\* C25: IO.traverse(items, f) applies f to the items in item order when it
\* is called, before any run(): when every f(item) returns, f has then been
\* called once per item and nothing else has run, and the IO it returns is
\* IO.sequence of what f returned; when f raises for an item, traverse
\* raises that error and f is not applied to the items after it. A run() of
\* the returned IO never calls f again; it runs each effect f produced once,
\* in order, and returns what IO.sequence of those effects returns, so k
\* runs run each effect k times.
C25_Traverse ==
    /\ last.op = "traverse" =>
          LET n == Len(last.items)
              Raised == {i \in 1..n : EffectOf(last, i).tag = "raise"}
              m == IF Raised = {} THEN n ELSE Min(Raised)
          IN  /\ nruns = 0
              /\ last.log = [i \in 1..m |-> <<last.f.fn, EffectOf(last, i).tag>>]
              /\ \A c \in Counted \ {last.f.fn} : calls[c] = last.pre[c]
              /\ calls[last.f.fn] = last.pre[last.f.fn] + m
              /\ IF Raised = {}
                 THEN /\ last.out = Return(io)
                      /\ io = IO_sequence([i \in 1..n |-> EffectOf(last, i).v])
                 ELSE last.out = EffectOf(last, m) /\ io = NoIO
    /\ (last.op = "run" /\ last.made # NoneV) =>
          LET t == last.made
              effects == [i \in 1..Len(t.items) |-> EffectOf(t, i).v]
              rs == RunsInOrder(effects, 1, W0)
          IN  /\ last.io = IO_sequence(effects)
              /\ CallsOf(t.f.fn, last.log) = {}
              /\ calls[t.f.fn] = t.pre[t.f.fn] + Len(t.items)
              /\ last.log = ConcatLogs(rs)
              /\ Len(rs) = Len(effects)
              /\ last.out = IO_run(IO_sequence(effects), W0).out
              /\ last.out = Return(ListV([i \in 1..Len(effects) |-> rs[i].out.v]))
              /\ t.f = Fn("effect_fn") =>
                    calls["counter"] = t.pre["counter"] + nruns * Len(effects)

\* IO.traverse([1, 2], effect_fn) run twice: effect_fn was called twice, at
\* the traverse call, and its two effects ran twice each.
C25_Witness ==
    /\ last.op = "run" /\ nruns = 2
    /\ last.made # NoneV
    /\ last.made.items = <<IntV(1), IntV(2)>> /\ last.made.f = Fn("effect_fn")
    /\ calls["effect_fn"] = 2 /\ calls["counter"] = 4
    /\ last.out = Return(ListV(<<IntV(2), IntV(4)>>))

\* C26: when the i-th effect of IO.sequence(effects) raises during run(),
\* the effects before it have run once each, in order, and returned; no
\* effect after it is started; run() raises the very error the i-th effect
\* raised, whatever its class, and returns no list.
C26_SequenceFailure ==
    (Ran("sequence") /\ last.out.tag = "raise") =>
        LET io_list == last.io.ios
            rs == RunsInOrder(io_list, 1, W0)
            i == Len(rs)
        IN  /\ i \in 1..Len(io_list)
            /\ \A j \in 1..(i - 1) : rs[j].out.tag = "return"
            /\ last.out = rs[i].out
            /\ last.log = ConcatLogs(rs)
            /\ calls = rs[i].w.calls
            /\ (\A j \in 1..Len(io_list) : io_list[j].op = "effect") =>
                  /\ last.log = [j \in 1..i |->
                                   <<io_list[j].c, IF j < i THEN "return" ELSE "raise">>]
                  /\ \A j \in (i + 1)..Len(io_list) :
                        io_list[j].c \notin {io_list[k].c : k \in 1..i}
                            => calls[io_list[j].c] = last.pre[io_list[j].c]

\* The second of three effects raises: the first has run, the third has not.
C26_Witness ==
    /\ last.op = "run"
    /\ last.io = IO_sequence(<<IO("counter"), IO("failing"), IO("io_input")>>)
    /\ last.pre["failing"] = 0
    /\ last.out = Raise(ExcV("ValueError", "failing", 0))
    /\ last.log = << <<"counter", "return">>, <<"failing", "raise">> >>
    /\ calls["io_input"] = 0

\* C29: for max_attempts <= 0, io.retry(max_attempts).run() never invokes
\* the closure, nor anything else of io, and ends by raising an error
\* (the TypeError of `raise None`) instead of returning a value.
C29_RetryWithoutAttempts ==
    (Ran("retry") /\ last.io.n <= 0) =>
        /\ last.log = <<>>
        /\ calls = last.pre
        /\ last.out.tag = "raise"
        /\ last.out.e = ExcV("TypeError", "raise", 0)

\* retry(-1) of an effect that would succeed, run twice.
C29_Witness ==
    /\ last.op = "run" /\ last.io = IO_retry(IO("counter"), -1)
    /\ last.out = Raise(ExcV("TypeError", "raise", 0))
    /\ calls["counter"] = 0 /\ nruns = 2

----------------------------------------------------------------------------
(* The monad laws: each action evaluates the two sides of one law, for one *)
(* of the three monads, from the current world (specification SpecLaws).   *)

LawValues == {IntV(5), StrV("a")}
LawIOs == Prims \cup {IO_map(IO("counter"), Fn("add3")), IO_attempt(IO("failing"))}
LawIOFns == {Fn("pure_add3"), Fn("failing_bind"), ConstFn(IO("counter")), ConstFn(IO("flaky"))}
LawEithers == {Either_right(IntV(5)), Either_right(StrV("a")), Either_left(StrV("error")),
               Either_left(ExcV("ValueError", "failing", 0))}
LawEitherFns == {Fn("right_add3"), Fn("left_error"), Fn("failing_bind")}
LawStreams == {Stream_of(<<>>), Stream_of(<<IntV(1), IntV(2), IntV(3)>>), Stream_of(<<StrV("a")>>),
               Stream_bind(Stream_of(<<IntV(1), IntV(2)>>), Fn("of_x_x3"))}
LawStreamFns == {Fn("of_x_x3"), Fn("of_x1"), Fn("of_nothing"), Fn("failing_bind")}

\* expr.run(), expr.to_list() and expr.bind(g) for an expression that was
\* evaluated to r (a raise of the expression is the raise of the whole).
ThenRun(r) == IF r.out.tag = "raise" THEN r ELSE IO_run(r.out.v, r.w)
ThenToList(r) == IF r.out.tag = "raise" THEN r ELSE Stream_to_list(r.out.v, r.w)
ThenBind(r, g) == IF r.out.tag = "raise" THEN r ELSE Either_bind(r.out.v, g, r.w)

\* What materializing one side gave: its outcome, the calls it made in order
\* and the counts it left.
Side(r) == [out |-> r.out, log |-> r.w.log, calls |-> r.w.calls]
Now == World(calls, <<>>)
\* The world as it is, with the objects made so far.
Here == [Now EXCEPT !.heap = heap]

Law(name, type, lhs, rhs) ==
    /\ law' = [name |-> name, type |-> type, lhs |-> Side(lhs), rhs |-> Side(rhs)]
    /\ calls' = lhs.w.calls
    /\ nruns' = nruns + 1
    /\ UNCHANGED <<io, last, chain, stream, pool, http, heap>>

\* pure(a).bind(f)  against  f(a)
LeftIdentityIO(a, f) ==
    /\ nruns < MaxRuns
    /\ Law("left", "IO", IO_run(IO_bind(IO_pure(a), f), Now), ThenRun(CallFn(f, a, Now)))
LeftIdentityEither(a, f) ==
    /\ nruns < MaxRuns
    /\ Law("left", "Either", Either_bind(Either_pure(a), f, Now), CallFn(f, a, Now))
LeftIdentityStream(a, f) ==
    /\ nruns < MaxRuns
    /\ Law("left", "Stream", Stream_to_list(Stream_bind(Stream_pure(a), f), Now),
        ThenToList(CallFn(f, a, Now)))

\* m.bind(pure)  against  m
RightIdentityIO(m) ==
    /\ nruns < MaxRuns
    /\ Law("right", "IO", IO_run(IO_bind(m, PureFn), Now), IO_run(m, Now))
RightIdentityEither(m) ==
    /\ nruns < MaxRuns
    /\ Law("right", "Either", Either_bind(m, EitherPureFn, Now), Res(Return(m), Now))
RightIdentityStream(m) ==
    /\ nruns < MaxRuns
    /\ Law("right", "Stream", Stream_to_list(Stream_bind(m, StreamPureFn), Now),
        Stream_to_list(m, Now))

\* m.bind(f).bind(g)  against  m.bind(lambda x: f(x).bind(g))
AssociativityIO(m, f, g) ==
    /\ nruns < MaxRuns
    /\ Law("assoc", "IO", IO_run(IO_bind(IO_bind(m, f), g), Now),
        IO_run(IO_bind(m, KleisliFn(f, g)), Now))
AssociativityEither(m, f, g) ==
    /\ nruns < MaxRuns
    /\ Law("assoc", "Either", ThenBind(Either_bind(m, f, Now), g),
        Either_bind(m, KleisliEither(f, g), Now))
AssociativityStream(m, f, g) ==
    /\ nruns < MaxRuns
    /\ Law("assoc", "Stream", Stream_to_list(Stream_bind(Stream_bind(m, f), g), Now),
        Stream_to_list(Stream_bind(m, KleisliStream(f, g)), Now))

NextLaws ==
    \/ \E a \in LawValues, f \in LawIOFns : LeftIdentityIO(a, f)
    \/ \E a \in LawValues, f \in LawEitherFns : LeftIdentityEither(a, f)
    \/ \E a \in LawValues, f \in LawStreamFns : LeftIdentityStream(a, f)
    \/ \E m \in LawIOs : RightIdentityIO(m)
    \/ \E m \in LawEithers : RightIdentityEither(m)
    \/ \E m \in LawStreams : RightIdentityStream(m)
    \/ \E m \in LawIOs, f \in LawIOFns, g \in LawIOFns : AssociativityIO(m, f, g)
    \/ \E m \in LawEithers, f \in LawEitherFns, g \in LawEitherFns : AssociativityEither(m, f, g)
    \/ \E m \in LawStreams, f \in LawStreamFns, g \in LawStreamFns : AssociativityStream(m, f, g)

SpecLaws == Init /\ [][NextLaws]_vars

----------------------------------------------------------------------------
(* The monad laws (specification SpecLaws).                                *)

\* C1: left identity. For IO, Either and Stream, pure(a).bind(f) materializes
\* as f(a) does: run() gives the same value or the same raised error, the
\* Either has the same tag and the same contained value, to_list() gives the
\* same elements; and the same user calls are made in the same order.
C1_LeftIdentity == law.name = "left" => law.lhs = law.rhs

C1_Witness ==
    /\ law.name = "left" /\ law.type = "Stream"
    /\ law.lhs.out = Return(ListV(<<IntV(5), IntV(8)>>))
    /\ law.lhs.log = << <<"of_x_x3", "return">> >>

\* C2: right identity. For IO, Either and Stream, m.bind(pure) materializes as
\* m does, also for an Either Left, an IO whose closure raises and the empty
\* Stream.
C2_RightIdentity == law.name = "right" => law.lhs = law.rhs

C2_Witness ==
    /\ law.name = "right" /\ law.type = "Either"
    /\ law.lhs.out = Return(Either_left(StrV("error")))

\* C3: associativity. For IO, Either and Stream, m.bind(f).bind(g)
\* materializes as m.bind(lambda x: f(x).bind(g)) does: the same outcome,
\* and the same closures and functions called in the same order.
C3_Associativity == law.name = "assoc" => law.lhs = law.rhs

C3_Witness ==
    /\ law.name = "assoc" /\ law.type = "IO"
    /\ law.lhs.log = << <<"io_input", "return">>, <<"counter", "return">>, <<"flaky", "raise">> >>
    /\ law.lhs.out.tag = "raise"

----------------------------------------------------------------------------
(* The Either monad: the program starts from one Either value and chains   *)
(* map and bind calls on what each call returned (specification            *)
(* SpecEither).                                                            *)

EitherMapFns == {Fn("add3"), Fn("failing_bind"), Fn("input")}
EitherBindFns == {Fn("right_add3"), Fn("left_error"), Fn("failing_bind")}

\* The first Left of the chain and the counts when it appeared, once a call
\* has returned out.
FirstLeft(out, w) ==
    IF chain.op # "none" /\ chain.first # NoneV THEN [first |-> chain.first, at |-> chain.at]
    ELSE IF out.tag = "return" /\ IsEither(out.v) /\ ~out.v.is_right
    THEN [first |-> out.v, at |-> w.calls]
    ELSE [first |-> NoneV, at |-> w.calls]

Step(op, self, f, r) ==
    /\ chain' = [op |-> op, self |-> self, f |-> f, pre |-> calls, log |-> r.w.log,
                 cur |-> r.out, steps |-> IF op = "new" THEN 0 ELSE chain.steps + 1,
                 first |-> FirstLeft(r.out, r.w).first, at |-> FirstLeft(r.out, r.w).at]
    /\ calls' = r.w.calls
    /\ UNCHANGED <<io, nruns, last, law, stream, pool, http, heap>>

\* The chain goes on while the last call returned an Either to the caller.
Chaining ==
    /\ chain.op # "none"
    /\ chain.steps < MaxSize
    /\ chain.cur.tag = "return" /\ IsEither(chain.cur.v)

\* e = Either.right(v) or e = Either.left(error)
EitherNew(m) ==
    /\ chain.op = "none"
    /\ Step("new", m, NoneV, Res(Return(m), Now))

\* e = e.map(f)
EitherMap(f) ==
    /\ Chaining
    /\ Step("map", chain.cur.v, f, Either_map(chain.cur.v, f, Now))

\* e = e.bind(f)
EitherBind(f) ==
    /\ Chaining
    /\ Step("bind", chain.cur.v, f, Either_bind(chain.cur.v, f, Now))

NextEither ==
    \/ \E m \in LawEithers : EitherNew(m)
    \/ \E f \in EitherMapFns : EitherMap(f)
    \/ \E f \in EitherBindFns : EitherBind(f)

SpecEither == Init /\ [][NextEither]_vars

\* What calling f on the value of the receiver of the last step gives.
FOfValue == CallFn(chain.f, chain.self.value, World(chain.pre, <<>>))

\* C11: Either.map(f) raises no Exception of f to the caller. On Right(v)
\* it calls f once and returns Right(f(v)), or Left(e) when f raises the
\* Exception e; on Left(e) it does not call f and returns a Left with the
\* same error e.
C11_EitherMap ==
    chain.op = "map" =>
        /\ (chain.self.is_right /\ FOfValue.out.tag = "return") =>
              chain.cur = Return(Either_right(FOfValue.out.v))
        /\ (chain.self.is_right /\ FOfValue.out.tag = "raise" /\ IsException(FOfValue.out.e)) =>
              chain.cur = Return(Either_left(FOfValue.out.e))
        /\ chain.self.is_right =>
              /\ chain.log = FOfValue.w.log
              /\ calls[chain.f.fn] = chain.pre[chain.f.fn] + 1
        /\ ~chain.self.is_right =>
              /\ chain.cur = Return(Either_left(chain.self.value))
              /\ chain.log = <<>> /\ calls = chain.pre
        /\ chain.cur.tag = "raise" => ~IsException(chain.cur.e)
        /\ (chain.self = Either_right(IntV(5)) /\ chain.f = Fn("add3")) =>
              chain.cur = Return(Either_right(IntV(8)))

C11_Witness ==
    /\ chain.op = "map" /\ chain.self = Either_right(IntV(5)) /\ chain.f = Fn("failing_bind")
    /\ chain.cur = Return(Either_left(ExcV("ValueError", "failing_bind", 0)))
    /\ calls["failing_bind"] = 1

\* C12: Either.bind short-circuits. On Left(e) it does not call f and returns
\* a Left with the same error e; on Right(v) it ends as f(v) ends: it returns
\* exactly what f returned, unwrapped, and an exception f raises reaches the
\* caller. In a chain of map/bind calls, once a Left has appeared every later
\* step calls nothing and the chain's value is that first Left.
C12_EitherBind ==
    /\ chain.op = "bind" =>
        /\ ~chain.self.is_right =>
              /\ chain.cur = Return(Either_left(chain.self.value))
              /\ chain.log = <<>> /\ calls = chain.pre
        /\ chain.self.is_right =>
              /\ chain.cur = FOfValue.out
              /\ chain.log = <<(<<chain.f.fn, FOfValue.out.tag>>)>>
              /\ calls[chain.f.fn] = chain.pre[chain.f.fn] + 1
        /\ (chain.self.is_right /\ chain.f = Fn("failing_bind")) =>
              chain.cur = Raise(ExcV("ValueError", "failing_bind", chain.pre["failing_bind"]))
        /\ (chain.self = Either_right(IntV(5)) /\ chain.f = Fn("right_add3")) =>
              chain.cur = Return(Either_right(IntV(8)))
    /\ (chain.op # "none" /\ chain.first # NoneV) =>
        /\ chain.cur = Return(chain.first)
        /\ calls = chain.at

C12_Witness ==
    /\ chain.op = "bind" /\ chain.steps = 3 /\ chain.f = Fn("failing_bind")
    /\ chain.first = Either_left(StrV("error"))
    /\ calls["left_error"] = 1 /\ calls["failing_bind"] = 0 /\ calls["add3"] = 0
    /\ chain.cur = Return(Either_left(StrV("error")))

----------------------------------------------------------------------------
(* The Stream monad: the program builds one Stream by transformations and  *)
(* then calls terminal operations on it (specification SpecStream).        *)

RECURSIVE StreamSize(_)
StreamSize(t) ==
    CASE t.op \in {"of", "range"} -> 1
      [] t.op \in {"zip", "concat"} -> 1 + StreamSize(t.s) + StreamSize(t.other)
      [] OTHER -> 1 + StreamSize(t.s)

Roots == {Stream_of(<<>>), Stream_of(<<IntV(1), IntV(2), IntV(1)>>), Stream_range(0)}
StreamMapFns == {Fn("add3")}
Predicates == {Fn("is_even"), Fn("gt3")}
StreamBindFns == {Fn("of_x_x3"), Fn("of_nothing")}
Takes == {0, 2, 4}
Skips == {1, 4}
ChunkSizes == {1, 2}

\* The terminal operations the program calls, with their arguments.
Terminal(op, f) == [op |-> op, f |-> f]
Terminals ==
    {Terminal("to_list", NoneV), Terminal("count", NoneV), Terminal("reduce", Fn("add"))}
        \cup {Terminal("find", p) : p \in Predicates}

\* An outcome without the invocation number its exception object carries.
Outcome(out) == IF out.tag = "raise" THEN Raise([out.e EXCEPT !.at = 0]) ELSE out

StreamRoom(n) == stream.op # "none" /\ nruns = 0 /\ StreamSize(stream.s) + n <= MaxSize

StreamBuilt(op, s) ==
    /\ stream' = [op |-> op, s |-> s, f |-> NoneV, pre |-> calls, log |-> <<>>, out |-> NoneV,
                  first |-> [t \in Terminals |-> NoneV]]
    /\ UNCHANGED <<io, calls, nruns, last, law, chain, pool, http, heap>>

\* What a terminal operation left: its outcome, the calls it made, and the
\* outcome of the first call of each terminal operation on this Stream.
Traversed(op, f, r) ==
    /\ stream' = [stream EXCEPT !.op = op, !.f = f, !.pre = calls, !.log = r.w.log, !.out = r.out,
                                !.first[Terminal(op, f)] = IF @ = NoneV THEN Outcome(r.out) ELSE @]
    /\ calls' = r.w.calls
    /\ nruns' = nruns + 1
    /\ UNCHANGED <<io, last, law, chain, pool, http, heap>>

\* s = Stream.of(...) or s = Stream.range(0)
StreamNew(s) ==
    /\ stream.op = "none"
    /\ StreamBuilt("new", s)
\* s = s.map(f)
StreamMap(f) ==
    /\ StreamRoom(1)
    /\ StreamBuilt("map", Stream_map(stream.s, f))
\* s = s.filter(predicate)
StreamFilter(predicate) ==
    /\ StreamRoom(1)
    /\ StreamBuilt("filter", Stream_filter(stream.s, predicate))
\* s = s.take(n)
StreamTake(n) ==
    /\ StreamRoom(1)
    /\ StreamBuilt("take", Stream_take(stream.s, n))
\* s = s.skip(n)
StreamSkip(n) ==
    /\ StreamRoom(1)
    /\ StreamBuilt("skip", Stream_skip(stream.s, n))
\* s = s.distinct()
StreamDistinct ==
    /\ StreamRoom(1)
    /\ StreamBuilt("distinct", Stream_distinct(stream.s))
\* s = s.chunk(size)
StreamChunk(size) ==
    /\ StreamRoom(1)
    /\ StreamBuilt("chunk", Stream_chunk(stream.s, size))
\* s = s.bind(f)
StreamBind(f) ==
    /\ StreamRoom(1)
    /\ StreamBuilt("bind", Stream_bind(stream.s, f))
\* s = s.zip(other)
StreamZip(other) ==
    /\ StreamRoom(1 + StreamSize(other))
    /\ StreamBuilt("zip", Stream_zip(stream.s, other))
\* s = s.concat(other)
StreamConcat(other) ==
    /\ StreamRoom(1 + StreamSize(other))
    /\ StreamBuilt("concat", Stream_concat(stream.s, other))

\* A terminal operation can be called on the Stream the program holds.
Traversable == stream.op # "none" /\ nruns < MaxRuns

\* s.to_list()
ToList ==
    /\ Traversable
    /\ Traversed("to_list", NoneV, Stream_to_list(stream.s, Now))
\* s.count()
Count ==
    /\ Traversable
    /\ Traversed("count", NoneV, Stream_count(stream.s, Now))
\* s.reduce(f, 0)
Reduce(f) ==
    /\ Traversable
    /\ Traversed("reduce", f, Stream_reduce(stream.s, f, IntV(0), Now))
\* s.find(predicate)
Find(predicate) ==
    /\ Traversable
    /\ Traversed("find", predicate, Stream_find(stream.s, predicate, Now))

NextStream ==
    \/ \E s \in Roots : StreamNew(s)
    \/ \E f \in StreamMapFns : StreamMap(f)
    \/ \E p \in {Fn("is_even")} : StreamFilter(p)
    \/ \E n \in Takes : StreamTake(n)
    \/ \E n \in Skips : StreamSkip(n)
    \/ StreamDistinct
    \/ \E size \in ChunkSizes : StreamChunk(size)
    \/ \E f \in StreamBindFns : StreamBind(f)
    \/ StreamZip(Stream_range(0))
    \/ StreamConcat(Stream_of(<<IntV(1), IntV(2), IntV(1)>>))
    \/ ToList
    \/ Count
    \/ Reduce(Fn("add"))
    \/ \E p \in Predicates : Find(p)

SpecStream == Init /\ [][NextStream]_vars

----------------------------------------------------------------------------
(* Properties of the Stream monad (specification SpecStream).              *)

\* The world the last operation started from, and what to_list() of s gives
\* from that world.
StreamW0 == World(stream.pre, <<>>)
SeqOf(s) == Stream_to_list(s, StreamW0)
\* The Stream the last operation was called on is op applied to some Stream.
Traversing(terminal, op) == stream.op = terminal /\ stream.s.op = op
\* s calls the function named name when it is traversed.
RECURSIVE Uses(_, _)
Uses(s, name) ==
    CASE s.op \in {"of", "range"} -> FALSE
      [] s.op \in {"map", "filter", "bind"} -> s.f.fn = name \/ Uses(s.s, name)
      [] s.op \in {"zip", "concat"} -> Uses(s.s, name) \/ Uses(s.other, name)
      [] OTHER -> Uses(s.s, name)
RECURSIVE Flat(_)
Flat(groups) == IF groups = <<>> THEN <<>> ELSE Head(groups).xs \o Flat(Tail(groups))

\* C13: map and take are lazy and take bounds the work. Building
\* s.map(f).take(n) calls f zero times; s.map(f).take(n).to_list() ends, also
\* for the unbounded Stream.range(0), and when it returns it has called f
\* exactly min(n, length of s) times and returns f of the first elements of
\* s, in order.
C13_TakeBoundsWork ==
    /\ nruns = 0 => \A name \in Counted : calls[name] = 0
    /\ (Traversing("to_list", "take") /\ stream.s.s.op = "map" /\ stream.s.n >= 0) =>
        LET s == stream.s.s.s
            f == stream.s.s.f.fn
            n == stream.s.n
            first_n == SeqOf(Stream_take(s, n))
        IN  /\ s = Stream_range(0) =>
                  /\ stream.out = Return(ListV([i \in 1..n |-> IntV(i - 1 + 3)]))
                  /\ stream.log = [i \in 1..n |-> <<f, "return">>]
            /\ s.op = "of" =>
                  LET k == IF n <= Len(s.xs) THEN n ELSE Len(s.xs) IN
                  /\ stream.out = Return(ListV([i \in 1..k |-> IntV(s.xs[i].n + 3)]))
                  /\ stream.log = [i \in 1..k |-> <<f, "return">>]
            /\ (first_n.out.tag = "return" /\ ~Uses(s, f)) =>
                  /\ stream.out.tag # "hang"
                  /\ stream.out.tag = "return" =>
                        /\ calls[f] = stream.pre[f] + Len(first_n.out.v.xs)
                        /\ Len(stream.out.v.xs) = Len(first_n.out.v.xs)
                        /\ \A i \in 1..Len(first_n.out.v.xs) :
                              Return(stream.out.v.xs[i]) = Apply(f, first_n.out.v.xs[i], 0)

C13_Witness ==
    /\ stream.op = "to_list"
    /\ stream.s = Stream_take(Stream_map(Stream_range(0), Fn("add3")), 2)
    /\ stream.out = Return(ListV(<<IntV(3), IntV(4)>>))
    /\ calls["add3"] = stream.pre["add3"] + 2

\* The elements of xs without the repetitions of an earlier element.
FirstOccurrences(xs) ==
    LET keep == {i \in 1..Len(xs) : \A j \in 1..(i - 1) : xs[j] # xs[i]}
        RECURSIVE Pick(_)
        Pick(i) == IF i > Len(xs) THEN <<>>
                   ELSE IF i \in keep THEN <<xs[i]>> \o Pick(i + 1) ELSE Pick(i + 1)
    IN  Pick(1)

C15_Chunk ==
    (Traversing("to_list", "chunk") /\ stream.s.n >= 1 /\ SeqOf(stream.s.s).out.tag = "return") =>
        LET xs == SeqOf(stream.s.s).out.v.xs
            size == stream.s.n
            groups == stream.out.v.xs
        IN  /\ stream.out.tag = "return"
            /\ \A i \in 1..Len(groups) :
                  /\ groups[i].ty = "list"
                  /\ Len(groups[i].xs) >= 1 /\ Len(groups[i].xs) <= size
                  /\ i < Len(groups) => Len(groups[i].xs) = size
            /\ Flat(groups) = xs
            /\ xs = <<>> => groups = <<>>

C15_Witness ==
    /\ stream.op = "to_list"
    /\ stream.s = Stream_chunk(Stream_of(<<IntV(1), IntV(2), IntV(1)>>), 2)
    /\ stream.out = Return(ListV(<<ListV(<<IntV(1), IntV(2)>>), ListV(<<IntV(1)>>)>>))

\* f(x).to_list() for each element x of xs from element i on, one after the
\* other from world w, concatenated; the first error ends it.
RECURSIVE ConcatMap(_, _, _, _)
ConcatMap(xs, i, f, w) ==
    IF i > Len(xs) THEN Res(Return(ListV(<<>>)), w)
    ELSE LET r == ThenToList(CallFn(f, xs[i], w)) IN
         IF r.out.tag # "return" THEN r
         ELSE LET rest == ConcatMap(xs, i + 1, f, r.w) IN
              IF rest.out.tag # "return" THEN rest
              ELSE Res(Return(ListV(r.out.v.xs \o rest.out.v.xs)), rest.w)

\* C16: bind flattens outer first, then inner, and lazily. For a finite s,
\* s.bind(f).to_list() is the concatenation, in the order of s, of
\* f(x).to_list() for each element x of s. s.bind(f).take(n).to_list() calls
\* f on an outer element only when the traversal reaches it: on Stream.range(0)
\* with f giving two elements per call it calls f exactly ceil(n/2) times.
C16_BindFlattensLazily ==
    /\ (Traversing("to_list", "bind") /\ SeqOf(stream.s.s).out.tag = "return"
            /\ SeqOf(stream.s.s).w.log = <<>>) =>
        /\ stream.out = ConcatMap(SeqOf(stream.s.s).out.v.xs, 1, stream.s.f, StreamW0).out
        /\ stream.out.tag = "return" =>
              stream.log = [i \in 1..Len(SeqOf(stream.s.s).out.v.xs) |-> <<stream.s.f.fn, "return">>]
        /\ (stream.s.s = Stream_of(<<IntV(1), IntV(2), IntV(1)>>) /\ stream.s.f = Fn("of_x_x3")) =>
              stream.out = Return(ListV(<<IntV(1), IntV(4), IntV(2), IntV(5), IntV(1), IntV(4)>>))
    /\ (Traversing("to_list", "take") /\ stream.s.s.op = "bind" /\ stream.s.s.f = Fn("of_x_x3")
            /\ stream.s.s.s.op \in {"of", "range"}) =>
        LET n == stream.s.n
            k == calls["of_x_x3"] - stream.pre["of_x_x3"]
        IN  /\ stream.out.tag = "return"
            /\ k >= 1 => 2 * (k - 1) < n
            /\ stream.s.s.s = Stream_range(0) =>
                  /\ 2 * k >= n
                  /\ stream.out = Return(ListV([i \in 1..n |->
                        IF i % 2 = 1 THEN IntV((i - 1) \div 2) ELSE IntV((i - 1) \div 2 + 3)]))

C16_Witness ==
    /\ stream.op = "to_list"
    /\ stream.s = Stream_take(Stream_bind(Stream_range(0), Fn("of_x_x3")), 4)
    /\ stream.out = Return(ListV(<<IntV(0), IntV(3), IntV(1), IntV(4)>>))
    /\ calls["of_x_x3"] = stream.pre["of_x_x3"] + 2

\* The sum of the numbers of xs from element i on.
RECURSIVE Sum(_, _)
Sum(xs, i) == IF i > Len(xs) THEN 0 ELSE xs[i].n + Sum(xs, i + 1)

C18_Find ==
    (stream.op = "find" /\ ~Uses(stream.s, stream.f.fn)) =>
        LET p == stream.f.fn
            k == Len(SelectSeq(stream.log, LAMBDA c : c[1] = p))
            tried == SeqOf(Stream_take(stream.s, k)).out.v.xs
            Holds(x) == Apply(p, x, 0) = Return(BoolV(TRUE))
        IN  /\ calls[p] = stream.pre[p] + k
            /\ (stream.out.tag = "return" /\ stream.out.v.is_right) =>
                  /\ k >= 1 /\ Len(tried) = k
                  /\ stream.out.v.value = tried[k]
                  /\ Holds(tried[k])
                  /\ \A i \in 1..(k - 1) : ~Holds(tried[i])
            /\ (stream.out.tag = "return" /\ ~stream.out.v.is_right) =>
                  /\ stream.out.v.value = StrV("No element found")
                  /\ SeqOf(stream.s).out = Return(ListV(tried))
                  /\ \A i \in 1..k : ~Holds(tried[i])
            /\ stream.out.tag = "hang" => \A i \in 1..k : ~Holds(tried[i])
            /\ stream.s = Stream_of(<<>>) => (stream.out = Return(Either_left(StrV("No element found"))) /\ k = 0)
            /\ (stream.s = Stream_range(0) /\ p = "gt3") =>
                  (stream.out = Return(Either_right(IntV(4))) /\ k = 5)
            /\ (stream.s = Stream_of(<<IntV(1), IntV(2), IntV(1)>>) /\ p = "is_even") =>
                  (stream.out = Return(Either_right(IntV(2))) /\ k = 2)

C18_Witness ==
    /\ stream.op = "find" /\ stream.f = Fn("gt3")
    /\ stream.s = Stream_map(Stream_range(0), Fn("add3"))
    /\ stream.out = Return(Either_right(IntV(4)))
    /\ calls["gt3"] = stream.pre["gt3"] + 2

----------------------------------------------------------------------------
(* SpecParallel: one HttpStream.execute_parallel(max_workers).run(), step   *)
(* by step. The calling thread submits every request to the executor,      *)
(* iterates as_completed and appends each result; the workers of the pool  *)
(* take the work items in the order of their submission and run them.      *)

\* The lists of URLs handed to HttpStream.from_urls.
UrlLists == UNION {[1..n -> Urls] : n \in 0..MaxRequests}

\* A future of concurrent.futures: the work item it stands for, its state
\* and, once finished, what the work item returned or raised.
Future(fn) == [fn |-> fn, state |-> "PENDING", out |-> NoneV]

\* The locals of execute_parallel.effect when the executor has been made.
Executing(self, max_workers, requests_list) ==
    [op |-> "running", self |-> self, max_workers |-> max_workers, pc |-> "submit",
     requests_list |-> requests_list, futures |-> <<>>, queue |-> <<>>,
     running |-> {}, early |-> {}, finished_futures |-> <<>>, yielded |-> {},
     results |-> <<>>, of |-> <<>>, log |-> <<>>, out |-> NoneV]

\* requests_list = list(self._requests); results = [];
\* ThreadPoolExecutor(max_workers=max_workers), with r the outcome of list().
effect_begin(p, r) ==
    IF r.out.tag = "return"
    THEN Executing(p.self, p.max_workers, r.out.v.xs)
    ELSE [Executing(p.self, p.max_workers, <<>>) EXCEPT !.op = "done", !.out = r.out]

\* The futures as_completed may yield next: those that had finished when it
\* began, in any order (it holds them in a set), then the others in the
\* order in which they finish.
Collectable(p) ==
    IF p.early # {} THEN p.early
    ELSE IF p.finished_futures # <<>> THEN {Head(p.finished_futures)}
    ELSE {}

\* An as_completed that ends as soon as no finished future is left to yield.
AllYielded_unwaited(p) == Collectable(p) = {}

\* as_completed ends: `while pending` finds every future yielded.
AllYielded(p) == p.yielded = DOMAIN p.futures

\* HttpStream.from_urls(urls).execute_parallel(max_workers): an IO, nothing
\* runs.
ExecuteParallel(urls, max_workers) ==
    /\ pool.op = "none"
    /\ \E r \in {HttpStream_from_urls(urls, Here)} :
        /\ pool' = [op |-> "built", self |-> r.out.v, max_workers |-> max_workers]
        /\ heap' = r.w.heap
    /\ UNCHANGED <<io, calls, nruns, last, law, chain, stream, http>>

\* .run(), up to the creation of the executor
RunParallel ==
    /\ pool.op = "built"
    /\ pool' = effect_begin(pool, Stream_to_list(pool.self.requests, Here))
    /\ UNCHANGED <<io, calls, nruns, last, law, chain, stream, http, heap>>

\* executor.submit(http_request(req).run) for the next req of requests_list
Submit ==
    /\ pool.op = "running"
    /\ pool.pc = "submit"
    /\ Len(pool.futures) < Len(pool.requests_list)
    /\ pool' = [pool EXCEPT
                  !.futures = Append(@, Future(http_request(pool.requests_list[Len(@) + 1]))),
                  !.queue = Append(@, Len(pool.futures) + 1)]
    /\ UNCHANGED <<io, calls, nruns, last, law, chain, stream, http, heap>>

\* as_completed(future_to_request) begins: it notes the futures that have
\* finished and waits for the others.
AsCompleted ==
    /\ pool.op = "running"
    /\ pool.pc = "submit"
    /\ Len(pool.futures) = Len(pool.requests_list)
    /\ pool' = [pool EXCEPT
                  !.pc = "collect",
                  !.early = {i \in DOMAIN pool.futures : pool.futures[i].state = "FINISHED"}]
    /\ UNCHANGED <<io, calls, nruns, last, law, chain, stream, http, heap>>

\* An executor that starts a thread for every work item it is handed.
Start_unbounded ==
    /\ pool.op = "running"
    /\ pool.queue # <<>>
    /\ pool' = [pool EXCEPT
                  !.queue = Tail(@),
                  !.running = @ \cup {Head(pool.queue)},
                  !.futures[Head(pool.queue)].state = "RUNNING",
                  !.log = Append(@, <<"start", Head(pool.queue)>>)]
    /\ UNCHANGED <<io, calls, nruns, last, law, chain, stream, http, heap>>

\* A worker of the pool that is not running anything takes the oldest work
\* item of the queue.
Start ==
    /\ pool.op = "running"
    /\ pool.queue # <<>>
    /\ Cardinality(pool.running) < pool.max_workers
    /\ pool' = [pool EXCEPT
                  !.queue = Tail(@),
                  !.running = @ \cup {Head(pool.queue)},
                  !.futures[Head(pool.queue)].state = "RUNNING",
                  !.log = Append(@, <<"start", Head(pool.queue)>>)]
    /\ UNCHANGED <<io, calls, nruns, last, law, chain, stream, http, heap>>

\* A work item that appends its result to `results` itself when it ends.
Finished_appending(p, i, r) ==
    [p EXCEPT
       !.running = @ \ {i},
       !.futures[i] = [@ EXCEPT !.state = "FINISHED", !.out = r.out],
       !.finished_futures = IF p.pc = "collect" THEN Append(@, i) ELSE @,
       !.results = IF r.out.tag = "return" THEN Append(@, r.out.v) ELSE @,
       !.log = Append(@, <<"finish", i>>)]

\* The future i after its work item ended as r, and the waiter of
\* as_completed, which is told of it once it waits.
Finished_(p, i, r) ==
    [p EXCEPT
       !.running = @ \ {i},
       !.futures[i] = [@ EXCEPT !.state = "FINISHED", !.out = r.out],
       !.finished_futures = IF p.pc = "collect" THEN Append(@, i) ELSE @,
       !.log = Append(@, <<"finish", i>>)]

\* The worker that runs work item i ends it: http_request(req).run() returns
\* or raises, which the future keeps.
Finish(i) ==
    /\ pool.op = "running"
    /\ i \in pool.running
    /\ \E r \in {IO_run(pool.futures[i].fn, Here)} :
        /\ pool' = Finished_(pool, i, r)
        /\ calls' = r.w.calls
    /\ UNCHANGED <<io, nruns, last, law, chain, stream, http, heap>>

\* results.append(future.result()) for the future i that as_completed
\* yields: result() returns what the work item returned and raises what it
\* raised, which leaves the loop.
Collected(p, i) ==
    IF p.futures[i].out.tag = "return"
    THEN [p EXCEPT
            !.early = @ \ {i},
            !.finished_futures = IF i \in p.early THEN @ ELSE Tail(@),
            !.yielded = @ \cup {i},
            !.results = Append(@, p.futures[i].out.v),
            !.of = Append(@, i)]
    ELSE [p EXCEPT !.pc = "exit", !.out = p.futures[i].out]

\* One iteration of `for future in as_completed(future_to_request)`
Collect(i) ==
    /\ pool.op = "running"
    /\ pool.pc = "collect"
    /\ i \in Collectable(pool)
    /\ pool' = Collected(pool, i)
    /\ UNCHANGED <<io, calls, nruns, last, law, chain, stream, http, heap>>

\* The for loop ends: the with block is left with `results` to return.
EndLoop ==
    /\ pool.op = "running"
    /\ pool.pc = "collect"
    /\ AllYielded(pool)
    /\ pool' = [pool EXCEPT !.pc = "exit", !.out = Return(ListV(pool.results))]
    /\ UNCHANGED <<io, calls, nruns, last, law, chain, stream, http, heap>>

\* executor.__exit__: shutdown(wait=True) returns when every worker has
\* ended and no work item is left; run() then returns or raises.
Exit ==
    /\ pool.op = "running"
    /\ pool.pc = "exit"
    /\ pool.running = {}
    /\ pool.queue = <<>>
    /\ pool' = [pool EXCEPT !.op = "done"]
    /\ UNCHANGED <<io, calls, nruns, last, law, chain, stream, http, heap>>

NextParallel ==
    \/ \E urls \in UrlLists, max_workers \in 1..MaxWorkers : ExecuteParallel(urls, max_workers)
    \/ RunParallel
    \/ Submit
    \/ AsCompleted
    \/ Start
    \/ \E i \in 1..MaxRequests : Finish(i)
    \/ \E i \in 1..MaxRequests : Collect(i)
    \/ EndLoop
    \/ Exit

SpecParallel == Init /\ [][NextParallel]_vars

----------------------------------------------------------------------------
(* Properties of execute_parallel, over the run that has ended.            *)

\* The result http_request(request).run() gives on its own, on a network
\* nobody else uses.
Alone(request) ==
    IO_run(http_request(request), [World([n \in Counted |-> 0], <<>>) EXCEPT !.heap = heap]).out.v

\* Two results are alike: both Right with the same response, or both Left
\* with an exception of the same class from the same URL.
SameResult(a, b) ==
    /\ a.is_right = b.is_right
    /\ IF a.is_right THEN a.value = b.value
       ELSE a.value.kind = b.value.kind /\ a.value.by = b.value.by

\* How often the workers logged the event e.
Times(e) == Cardinality({k \in DOMAIN pool.log : pool.log[k] = e})

\* C19: when execute_parallel(max_workers).run() over N requests has ended,
\* it has returned a list of exactly N results; the k-th of them is what the
\* future of one request returned (pool.of[k] names it), and the future of
\* every submitted request is named exactly once: no result is dropped or
\* duplicated. This holds in every interleaving of the workers, for every
\* max_workers from 1 on, smaller or larger than N.
C19_OneResultPerRequest ==
    pool.op = "done" =>
        /\ pool.out.tag = "return"
        /\ Len(pool.out.v.xs) = Len(pool.requests_list)
        /\ Len(pool.of) = Len(pool.requests_list)
        /\ \A i \in DOMAIN pool.requests_list :
              Cardinality({k \in DOMAIN pool.of : pool.of[k] = i}) = 1
        /\ \A k \in DOMAIN pool.of :
              /\ pool.out.v.xs[k] = pool.futures[pool.of[k]].out.v
              /\ pool.futures[pool.of[k]].fn = http_request(pool.requests_list[pool.of[k]])
              /\ pool.out.v.xs[k].is_right =>
                    pool.out.v.xs[k].value.request = pool.requests_list[pool.of[k]]

\* Three requests on two workers, collected in an order that is not the
\* order of their submission.
C19_Witness ==
    /\ pool.op = "done"
    /\ Len(pool.requests_list) = 3
    /\ pool.max_workers = 2
    /\ pool.of = <<2, 1, 3>>
    /\ Len(pool.out.v.xs) = 3

\* C20: when execute_parallel(...).run() has ended it has returned, not
\* raised, whatever requests failed; every request was started and finished
\* by a worker exactly once; the result of each request is the one it gives
\* on its own, so a failing sibling changes nothing; and the result of a
\* request whose connection fails is a Left holding that error.
C20_FailuresStayLocal ==
    pool.op = "done" =>
        /\ pool.out.tag = "return"
        /\ \A i \in DOMAIN pool.requests_list :
              /\ Times(<<"start", i>>) = 1
              /\ Times(<<"finish", i>>) = 1
              /\ \E k \in DOMAIN pool.of :
                    /\ pool.of[k] = i
                    /\ k \in DOMAIN pool.out.v.xs
                    /\ SameResult(pool.out.v.xs[k], Alone(pool.requests_list[i]))
                    /\ Server(heap[pool.requests_list[i].at].url, 0).tag = "raise" =>
                          /\ ~pool.out.v.xs[k].is_right
                          /\ pool.out.v.xs[k].value = pool.futures[i].out.v.value
                          /\ pool.out.v.xs[k].value.kind = "ConnectionError"

\* One worker, three requests of which the second fails: the third is still
\* performed and its response is in the list, after the Left of the second.
C20_Witness ==
    /\ pool.op = "done"
    /\ pool.max_workers = 1
    /\ Len(pool.requests_list) = 3
    /\ heap[pool.requests_list[2].at].url = "/down"
    /\ heap[pool.requests_list[3].at].url = "/users"
    /\ pool.out.tag = "return"
    /\ pool.out.v.xs = <<Alone(pool.requests_list[1]),
                         Either_left(ExcV("ConnectionError", "/down", 0)),
                         Either_right(HttpResponse(200, pool.requests_list[3]))>>

\* The place of the event e in the log of the workers, and the place of the
\* result of future i in the list run() returned.
EventAt(e) == CHOOSE k \in DOMAIN pool.log : pool.log[k] = e
PlaceOf(i) == CHOOSE k \in DOMAIN pool.of : pool.of[k] = i

\* C21: the list execute_parallel returns is in completion order: whenever
\* the execution of request i ended before that of request j, the result of
\* i stands before the result of j.
C21_CompletionOrder ==
    (pool.op = "done" /\ pool.out.tag = "return") =>
        \A i, j \in DOMAIN pool.futures :
            EventAt(<<"finish", i>>) < EventAt(<<"finish", j>>) => PlaceOf(i) < PlaceOf(j)

----------------------------------------------------------------------------
(* SpecParallelLive: SpecParallel with the scheduling the run can count on. *)
(* The calling thread goes on with its next statement; an idle worker takes *)
(* the next work item of the queue; a request that was started ends (it is  *)
(* answered, refused or timed out).                                         *)

Scheduling ==
    /\ WF_vars(RunParallel)
    /\ WF_vars(Submit)
    /\ WF_vars(AsCompleted)
    /\ WF_vars(Start)
    /\ \A i \in 1..MaxRequests : WF_vars(Finish(i)) /\ WF_vars(Collect(i))
    /\ WF_vars(EndLoop)
    /\ WF_vars(Exit)

\* The batches it is followed on: requests that are answered and requests
\* that are refused.
LiveUrlLists == UNION {[1..n -> {"/users", "/down"}] : n \in 0..MaxRequests}

NextParallelLive ==
    \/ \E urls \in LiveUrlLists, max_workers \in 1..MaxWorkers : ExecuteParallel(urls, max_workers)
    \/ RunParallel
    \/ Submit
    \/ AsCompleted
    \/ Start
    \/ \E i \in 1..MaxRequests : Finish(i)
    \/ \E i \in 1..MaxRequests : Collect(i)
    \/ EndLoop
    \/ Exit

SpecParallelLive == Init /\ [][NextParallelLive]_vars /\ Scheduling

\* The executor exists: requests may have been submitted to it.
Pooled == pool.op \in {"running", "done"}

\* C22: during execute_parallel(max_workers).run() at most max_workers
\* requests are executing at any moment; no request is started or finished
\* twice, and from every moment on there comes one at which every request
\* submitted so far has been started and finished: each is executed exactly
\* once.
C22_BoundedWorkers ==
    /\ [](Pooled =>
            /\ Cardinality(pool.running) <= pool.max_workers
            /\ \A i \in DOMAIN pool.futures :
                  /\ Times(<<"start", i>>) <= 1
                  /\ Times(<<"finish", i>>) <= Times(<<"start", i>>))
    /\ Pooled ~> (Pooled /\ \A i \in DOMAIN pool.futures :
                                Times(<<"start", i>>) = 1 /\ Times(<<"finish", i>>) = 1)

\* Two requests are executing, which is all that max_workers = 2 allows, and
\* a third waits in the queue of the executor.
C22_Witness ==
    /\ pool.op = "running"
    /\ pool.max_workers = 2
    /\ pool.running = {1, 2}
    /\ pool.queue = <<3>>

\* C30: execute_parallel(...).run() is a blocking join. When it has
\* returned, every submitted request has finished: no worker is running,
\* no work item waits, every future is FINISHED. The list of results is
\* written by the collecting thread only: a step that changes it is one of
\* the for loop over as_completed, and no step of a worker. And with
\* requests that all end (Scheduling), a run that has begun returns.
C30_BlockingJoin ==
    /\ [](pool.op = "done" =>
            /\ pool.running = {}
            /\ pool.queue = <<>>
            /\ Len(pool.futures) = Len(pool.requests_list)
            /\ \A i \in DOMAIN pool.futures : pool.futures[i].state = "FINISHED")
    /\ [][(pool.op = "running" /\ pool'.op = "running" /\ pool'.results # pool.results) =>
            /\ pool.pc = "collect"
            /\ pool'.log = pool.log
            /\ pool'.running = pool.running
            /\ pool'.futures = pool.futures
            /\ calls' = calls]_vars
    /\ (pool.op = "running") ~> (pool.op = "done")

\* run() has returned two results; the two requests were executing at the
\* same time and ended in the other order, both before the return.
C30_Witness ==
    /\ pool.op = "done"
    /\ pool.max_workers = 2
    /\ pool.log = << <<"start", 1>>, <<"start", 2>>, <<"finish", 2>>, <<"finish", 1>> >>
    /\ Len(pool.results) = 2
    /\ pool.out = Return(ListV(pool.results))

----------------------------------------------------------------------------
(* SpecHttp: a program that makes an HttpStream from URLs, derives another  *)
(* from it by composition, calls execute() on the derived one, runs the IO  *)
(* and traverses the Stream of responses it returns, wholly or in part.     *)

\* max_attempts of with_retry when none is given.
DefaultAttempts == 3

\* The lists of URLs handed to from_urls, and the arguments of the
\* composition steps.
HttpUrlLists == UNION {[1..n -> {"/users", "/down"}] : n \in 0..MaxRequests}
HeaderDicts == {DictV([Accept |-> "application/json"])}
Tokens == {"t0ken"}
RequestFns == {Redirect("/missing")}
HttpTakes == {1}
\* How far the program traverses the responses when not to their end.
Reaches == {1, 2}

\* What the program holds after a composition step `op` that made `derived`.
Composed(op, derived) == [http EXCEPT !.op = op, !.derived = derived, !.via = Append(@, op)]
Composable ==
    /\ http.op # "none"
    /\ http.io = NoneV
    /\ StreamSize(http.derived.requests) < MaxSize

\* original = HttpStream.from_urls(urls); derived = original
HttpFromUrls(urls) ==
    /\ http.op = "none"
    /\ \E r \in {HttpStream_from_urls(urls, Here)} :
        /\ http' = [op |-> "from_urls", original |-> r.out.v, derived |-> r.out.v,
                    made |-> r.w.heap, via |-> <<>>, io |-> NoneV, responses |-> NoneV,
                    k |-> NoneV, pre |-> calls, was |-> heap, log |-> <<>>, out |-> NoneV]
        /\ heap' = r.w.heap
    /\ UNCHANGED <<io, calls, nruns, last, law, chain, stream, pool>>

\* derived = derived.with_headers(headers)
HttpWithHeaders(headers) ==
    /\ Composable
    /\ http' = Composed("with_headers", HttpStream_with_headers(http.derived, headers))
    /\ UNCHANGED <<io, calls, nruns, last, law, chain, stream, pool, heap>>

\* derived = derived.with_auth(token)
HttpWithAuth(token) ==
    /\ Composable
    /\ http' = Composed("with_auth", HttpStream_with_auth(http.derived, token))
    /\ UNCHANGED <<io, calls, nruns, last, law, chain, stream, pool, heap>>

\* derived = derived.map_request(f)
HttpMapRequest(f) ==
    /\ Composable
    /\ http' = Composed("map_request", HttpStream_map_request(http.derived, f))
    /\ UNCHANGED <<io, calls, nruns, last, law, chain, stream, pool, heap>>

\* derived = derived.with_retry()
HttpWithRetry ==
    /\ Composable
    /\ http' = Composed("with_retry", HttpStream_with_retry(http.derived, DefaultAttempts))
    /\ UNCHANGED <<io, calls, nruns, last, law, chain, stream, pool, heap>>

\* derived = derived.take(n)
HttpTake(n) ==
    /\ Composable
    /\ http' = Composed("take", HttpStream_take(http.derived, n))
    /\ UNCHANGED <<io, calls, nruns, last, law, chain, stream, pool, heap>>

\* io = derived.execute()
HttpExecute ==
    /\ http.op # "none"
    /\ http.io = NoneV
    /\ http' = [http EXCEPT !.op = "execute", !.io = HttpStream_execute(http.derived),
                            !.pre = calls, !.was = heap]
    /\ UNCHANGED <<io, calls, nruns, last, law, chain, stream, pool, heap>>

\* responses = io.run()
HttpRun ==
    /\ http.op = "execute"
    /\ \E r \in {IO_run(http.io, Here)} :
        /\ http' = [http EXCEPT !.op = "run", !.responses = r.out.v, !.pre = calls,
                                !.was = heap, !.log = r.w.log, !.out = r.out]
        /\ calls' = r.w.calls
        /\ heap' = r.w.heap
    /\ UNCHANGED <<io, nruns, last, law, chain, stream, pool>>

\* The traversal `of` the responses (NoneV: all of them) that ended as r.
HttpTraversable == http.op \in {"run", "to_list"} /\ nruns < MaxRuns
HttpTraversed(of, r) ==
    /\ http' = [http EXCEPT !.op = "to_list", !.k = of, !.pre = calls, !.was = heap,
                            !.log = r.w.log, !.out = r.out]
    /\ calls' = r.w.calls
    /\ heap' = r.w.heap
    /\ nruns' = nruns + 1
    /\ UNCHANGED <<io, last, law, chain, stream, pool>>

\* responses.to_list()
HttpToList ==
    /\ HttpTraversable
    /\ HttpTraversed(NoneV, Stream_to_list(http.responses, Here))

\* responses.take(k).to_list()
HttpTakeToList(k) ==
    /\ HttpTraversable
    /\ HttpTraversed(IntV(k), Stream_to_list(Stream_take(http.responses, k), Here))

NextHttp ==
    \/ \E urls \in HttpUrlLists : HttpFromUrls(urls)
    \/ \E headers \in HeaderDicts : HttpWithHeaders(headers)
    \/ \E token \in Tokens : HttpWithAuth(token)
    \/ \E f \in RequestFns : HttpMapRequest(f)
    \/ HttpWithRetry
    \/ \E n \in HttpTakes : HttpTake(n)
    \/ HttpExecute
    \/ HttpRun
    \/ HttpToList
    \/ \E k \in Reaches : HttpTakeToList(k)

SpecHttp == Init /\ [][NextHttp]_vars

----------------------------------------------------------------------------
(* Properties of HttpStream composition and of execute().                  *)

\* The requests of the HttpStream from_urls made, as they are now.
Original(i) == Object(http.original.requests.xs[i], Here)

\* C23: composition yields a new HttpStream and changes no existing value:
\* whatever with_headers, with_auth or map_request derived from the original
\* stream, and also after the derived stream has been executed, the requests
\* of the original stream are as from_urls made them, with the headers they
\* had.
C23_CompositionLeavesOriginal ==
    http.op # "none" =>
        /\ http.via # <<>> => http.derived # http.original
        /\ \A i \in DOMAIN http.original.requests.xs :
              /\ Original(i) = http.made[http.original.requests.xs[i].at]
              /\ Original(i).headers = NoneV


\* The step of the composition that made the derived stream includes `op`.
Via(op) == \E j \in DOMAIN http.via : http.via[j] = op
\* How many requests the last step sent to url, and how many of the results
\* it returned are the failure of a request to url.
Sent(url) == Cardinality({k \in DOMAIN http.log : http.log[k][1] = url})
Failed(url) ==
    Cardinality({k \in DOMAIN http.out.v.xs :
                    ~http.out.v.xs[k].is_right /\ http.out.v.xs[k].value.by = url})

\* C24: when a stream made with with_retry(max_attempts) is executed, a
\* request that fails is attempted again, max_attempts times in all when it
\* fails every time, before its failure is reported: to a URL that always
\* fails, max_attempts requests are sent for every failure in the results.
C24_RetryAttempts ==
    (http.op = "to_list" /\ http.out.tag = "return" /\ Via("with_retry")) =>
        \A url \in Urls :
            Server(url, 0).tag = "raise" => Sent(url) = DefaultAttempts * Failed(url)


\* The requests the derived stream holds, in order: what list(derived
\* ._requests) gives in the world the last step began in.
Asked == Stream_to_list(http.derived.requests, [Here EXCEPT !.calls = http.pre, !.heap = http.was])
UrlAsked(i) == Object(Asked.out.v.xs[i], Asked.w).url
\* How many of them a traversal of the first k responses (NoneV: of all)
\* reaches.
Reached(k) ==
    IF k = NoneV THEN Len(Asked.out.v.xs)
    ELSE IF k.n > Len(Asked.out.v.xs) THEN Len(Asked.out.v.xs) ELSE k.n

\* C28: execute() and execute().run() perform no request. A traversal of
\* the Stream that run() returned performs the requests it reaches, and only
\* those (take(k): the first k), one after the other in the order of the
\* requests, each answered before the next is sent, and its i-th result is
\* the answer to the i-th request. This holds of every traversal, so a
\* second traversal performs the requests again.
C28_ExecuteIsLazy ==
    /\ http.op \notin {"none", "to_list"} => \A url \in Urls : calls[url] = 0
    /\ http.op = "run" => http.log = <<>> /\ http.out = Return(Responses(http.derived))
    /\ http.op = "to_list" =>
          /\ http.out.tag = "return"
          /\ Len(http.out.v.xs) = Reached(http.k)
          /\ http.log = [i \in 1..Reached(http.k) |-> <<UrlAsked(i), Server(UrlAsked(i), 0).tag>>]
          /\ \A url \in Urls : calls[url] = http.pre[url] + Sent(url)
          /\ \A i \in 1..Reached(http.k) :
                IF Server(UrlAsked(i), 0).tag = "return"
                THEN http.out.v.xs[i] =
                        Either_right(HttpResponse(Server(UrlAsked(i), 0).v.n, Asked.out.v.xs[i]))
                ELSE ~http.out.v.xs[i].is_right /\ http.out.v.xs[i].value.by = UrlAsked(i)

\* Three requests, traversed to the end and then again up to the first
\* response: the second traversal sends the first request once more, and
\* only that one.
C28_Witness ==
    /\ http.op = "to_list"
    /\ nruns = 2
    /\ http.k = IntV(1)
    /\ Len(http.original.requests.xs) = 3
    /\ http.via = <<>>
    /\ http.log = <<<<"/down", "raise">>>>
    /\ calls["/down"] + calls["/users"] = 4

====
